---- MODULE Spec2Model ----
(***************************************************************************)
(* erd-hull: the hull / padding / overlay pipeline of the ERD tool.        *)
(*                                                                         *)
(* Four machines share this module:                                        *)
(*   SpecPadding  HullPadding.addPadding applied to bounded point lists    *)
(*   SpecCompose  ERDHullCLI.generateSVGOutput on bounded results/documents*)
(*   SpecRender   WatercolorEffect.generateWatercolorLayers, call by call  *)
(*   Spec         ERDHullCLI.run, one invocation of the command line tool  *)
(***************************************************************************)
EXTENDS Integers, Sequences, FiniteSets, TLC

VARIABLES
  points,     \* addPadding: the point list first handed to addPadding
  before,     \* addPadding: the list handed to the latest call
  padded,     \* addPadding: the list returned by the latest call
  applied,    \* addPadding: the padding argument of every call so far
  results,      \* generateSVGOutput / run: one record per group
  splineConfig, \* generateSVGOutput / run: the curve configuration
  svgContent,   \* generateSVGOutput / run: the base document, if any
  output,       \* generateSVGOutput: what the call returned or threw
  pc,             \* run: where the action handler stands
  entityNames,    \* run: the positional arguments
  options,        \* run: the parsed options
  files,          \* run: the files the invocation finds on disk
  focusAreas,     \* run: the focus areas loaded from --areas
  focusAreaNames, \* run: the names to process
  stdout,         \* run: what console.log wrote
  stderr,         \* run: what console.error wrote
  exitCode,       \* run: the exit status, Running until the process ends
  io,             \* run: the file system and output operations so far
  earlier,        \* run: how the invocation before this one ended, if any
  firstCall,    \* generateWatercolorLayers: the first call and what it returned
  previousCall, \* generateWatercolorLayers: the call before the latest
  lastCall      \* generateWatercolorLayers: the latest call and what it returned

padVars == <<points, before, padded, applied>>

composeVars == <<results, splineConfig, svgContent, output>>

runVars ==
  <<pc, entityNames, options, files, focusAreas, focusAreaNames,
    stdout, stderr, exitCode, io, earlier>>

renderVars == <<firstCall, previousCall, lastCall>>

(***************************************************************************)
(* Numbers.  The code computes in IEEE doubles.  The model computes in     *)
(* fixed point: a number is an integer count of 1/Fix units.  Sums,        *)
(* differences and the squares under the square root are exact; a         *)
(* quotient, a square root and a product with a quotient are rounded to    *)
(* the nearest unit, as each double operation rounds to the nearest        *)
(* double.  NonFinite stands for Infinity and NaN (a division by zero and  *)
(* everything computed from it).                                           *)
(***************************************************************************)
Fix == 1000

NonFinite == 0 - (2 ^ 30)

IsFinite(a) == a # NonFinite

Abs(a) == IF a < 0 THEN 0 - a ELSE a

\* a / b for integers, b > 0, rounded to the nearest integer, halves away from 0
RoundDiv(a, b) ==
  IF a >= 0 THEN ((2 * a) + b) \div (2 * b)
  ELSE 0 - (((2 * (0 - a)) + b) \div (2 * b))

Add(a, b) == IF IsFinite(a) /\ IsFinite(b) THEN a + b ELSE NonFinite

Sub(a, b) == IF IsFinite(a) /\ IsFinite(b) THEN a - b ELSE NonFinite

\* a * b of two fixed-point numbers
Mul(a, b) ==
  IF IsFinite(a) /\ IsFinite(b) THEN RoundDiv(a * b, Fix) ELSE NonFinite

\* a / b of two fixed-point numbers; x / 0 is Infinity or NaN
Div(a, b) ==
  IF ~(IsFinite(a) /\ IsFinite(b)) \/ b = 0 THEN NonFinite
  ELSE IF b > 0 THEN RoundDiv(a * Fix, b)
  ELSE RoundDiv((0 - a) * Fix, 0 - b)

\* a / n for a fixed-point a and a count n (points.length)
DivCount(a, n) ==
  IF ~IsFinite(a) \/ n = 0 THEN NonFinite ELSE RoundDiv(a, n)

RECURSIVE IsqrtIter(_, _)
\* the largest r with r * r <= n, by Newton's iteration from a guess g > 0
\* that is not below it
IsqrtIter(n, g) ==
  LET next == (g + (n \div g)) \div 2
  IN  IF next >= g THEN g ELSE IsqrtIter(n, next)

\* Math.sqrt(dx * dx + dy * dy) for fixed-point dx, dy: the square root of
\* the exact sum of squares, rounded to the nearest unit
Hypot(dx, dy) ==
  IF ~(IsFinite(dx) /\ IsFinite(dy)) THEN NonFinite
  ELSE IF dx = 0 /\ dy = 0 THEN 0
  ELSE LET n == (dx * dx) + (dy * dy)
           r == IsqrtIter(n, Abs(dx) + Abs(dy))
       IN  IF n - (r * r) > r THEN r + 1 ELSE r

(***************************************************************************)
(* Points (types.ts) and HullPadding.addPadding.                           *)
(***************************************************************************)
Point(px, py) == [x |-> px, y |-> py]

RECURSIVE SumX(_)
SumX(ps) == IF ps = <<>> THEN 0 ELSE Add(Head(ps).x, SumX(Tail(ps)))

RECURSIVE SumY(_)
SumY(ps) == IF ps = <<>> THEN 0 ELSE Add(Head(ps).y, SumY(Tail(ps)))

\* mutant: the sums are never divided by points.length
PaddingCentroid_NoDivide(ps) == Point(SumX(ps), SumY(ps))

\* the reduce and the two divisions of addPadding; 0 / 0 for no points
PaddingCentroid(ps) ==
  Point(DivCount(SumX(ps), Len(ps)), DivCount(SumY(ps), Len(ps)))

\* mutant: every coordinate is pushed out by padding (an axis-wise offset)
PadPoint_AxisOffset(point, centroid, padding) ==
  LET dx == Sub(point.x, centroid.x)
      dy == Sub(point.y, centroid.y)
      push(d) == IF d > 0 THEN padding ELSE IF d < 0 THEN 0 - padding ELSE 0
  IN  Point(Add(point.x, push(dx)), Add(point.y, push(dy)))

\* mutant: the square root is forgotten
PadPoint_NoSqrt(point, centroid, padding) ==
  LET dx == Sub(point.x, centroid.x)
      dy == Sub(point.y, centroid.y)
      distance == Add(Mul(dx, dx), Mul(dy, dy))
  IN  IF distance = 0 THEN point
      ELSE LET scale == Div(Add(distance, padding), distance)
           IN  Point(Add(centroid.x, Mul(dx, scale)),
                     Add(centroid.y, Mul(dy, scale)))

\* mutant: no guard for a point at the centroid
PadPoint_NoZeroGuard(point, centroid, padding) ==
  LET dx == Sub(point.x, centroid.x)
      dy == Sub(point.y, centroid.y)
      distance == Hypot(dx, dy)
      scale == Div(Add(distance, padding), distance)
  IN  Point(Add(centroid.x, Mul(dx, scale)), Add(centroid.y, Mul(dy, scale)))

\* the callback of points.map in addPadding
PadPoint(point, centroid, padding) ==
  LET dx == Sub(point.x, centroid.x)
      dy == Sub(point.y, centroid.y)
      distance == Hypot(dx, dy)
  IN  IF distance = 0 THEN point
      ELSE LET scale == Div(Add(distance, padding), distance)
           IN  Point(Add(centroid.x, Mul(dx, scale)),
                     Add(centroid.y, Mul(dy, scale)))

\* mutant: only a padding of exactly 0 returns early
addPadding_ZeroOnly(ps, padding) ==
  IF padding = 0 THEN ps
  ELSE LET centroid == PaddingCentroid(ps)
       IN  [i \in 1..Len(ps) |-> PadPoint(ps[i], centroid, padding)]

addPadding(ps, padding) ==
  IF padding <= 0 THEN ps
  ELSE LET centroid == PaddingCentroid(ps)
       IN  [i \in 1..Len(ps) |-> PadPoint(ps[i], centroid, padding)]

\* number.toFixed(2), in hundredths
ToFixed2(a) == IF IsFinite(a) THEN RoundDiv(a * 100, Fix) ELSE NonFinite

(***************************************************************************)
(* WatercolorEffect.  A path description is a sequence of path tokens: a   *)
(* numeric token as the regular expression -?\d+\.?\d* finds it, or one    *)
(* other character.  A numeric token is a number as written ("num", in     *)
(* units) or a number written by toFixed(2) ("fixed2", in hundredths).  A  *)
(* color is a string of characters.  Opacities are in thousandths.         *)
(***************************************************************************)
Cmd(c) == [kind |-> "cmd", v |-> 0, c |-> c]

Num(v) == [kind |-> "num", v |-> v, c |-> ""]

Fixed2(h) == [kind |-> "fixed2", v |-> h, c |-> ""]

\* coord.toFixed(2): the hundredths, and the "-" that a negative number is
\* written with even when it rounds to 0.00
toFixed(a) == [Fixed2(ToFixed2(a)) EXCEPT !.c = IF a < 0 THEN "-" ELSE ""]

IsNumber(t) == t.kind \in {"num", "fixed2"}

\* parseFloat of a numeric token, in units
parseFloat(t) == IF t.kind = "num" THEN t.v ELSE RoundDiv(t.v * Fix, 100)

Min(a, b) == IF a < b THEN a ELSE b

Max(a, b) == IF a > b THEN a ELSE b

\* sin(seed) * 10000: the fractional part below is in 1 / RandomScale
RandomScale == 10000

\* x - Math.floor(x) for x = Math.sin(seed) * 10000, as doubles give it, for
\* the seeds the layers 1..10 use; a seed is in thousandths
seededRandomValues ==
  (7000 :> 8659) @@ (11000 :> 979) @@ (13000 :> 6703) @@ (14000 :> 735)
    @@ (21000 :> 5563) @@ (22000 :> 4869) @@ (26000 :> 5845)
    @@ (28000 :> 578) @@ (33000 :> 1186) @@ (35000 :> 1733)
    @@ (39000 :> 9538) @@ (42000 :> 7845) @@ (44000 :> 192)
    @@ (49000 :> 4734) @@ (52000 :> 2759) @@ (55000 :> 4482)
    @@ (56000 :> 4899) @@ (63000 :> 5570) @@ (65000 :> 2867)
    @@ (66000 :> 4884) @@ (70000 :> 9068) @@ (77000 :> 2015)
    @@ (78000 :> 7845) @@ (88000 :> 9830) @@ (91000 :> 8751)
    @@ (99000 :> 9316) @@ (104000 :> 7759) @@ (110000 :> 5732)
    @@ (117000 :> 205) @@ (123456 :> 6263) @@ (124456 :> 9623)
    @@ (125456 :> 8410) @@ (126456 :> 6592) @@ (127456 :> 6954)
    @@ (128456 :> 3903) @@ (129456 :> 5552) @@ (130000 :> 9404)
    @@ (130456 :> 9069) @@ (131456 :> 8774) @@ (132456 :> 9904)
    @@ (133456 :> 9791) @@ (134456 :> 5016) @@ (135456 :> 167)
    @@ (136456 :> 9041) @@ (137456 :> 4380) @@ (138456 :> 623)
    @@ (139456 :> 1836) @@ (140456 :> 7061) @@ (246912 :> 2556)
    @@ (247912 :> 1073) @@ (248912 :> 8151) @@ (249912 :> 4783)
    @@ (250912 :> 3281) @@ (251912 :> 5560) @@ (252912 :> 490)
    @@ (253912 :> 4624) @@ (254912 :> 5266) @@ (255912 :> 5547)
    @@ (256912 :> 5556) @@ (257912 :> 5968) @@ (258912 :> 3237)
    @@ (259912 :> 7008) @@ (260912 :> 6961) @@ (261912 :> 7288)
    @@ (262912 :> 1083) @@ (263912 :> 1609) @@ (370368 :> 7595)
    @@ (371368 :> 6968) @@ (372368 :> 1802) @@ (373368 :> 3199)
    @@ (374368 :> 4453) @@ (375368 :> 6848) @@ (376368 :> 2964)
    @@ (377368 :> 2269) @@ (378368 :> 5737) @@ (379368 :> 2855)
    @@ (380368 :> 7604) @@ (381368 :> 5663) @@ (382368 :> 7021)
    @@ (383368 :> 5922) @@ (384368 :> 3032) @@ (385368 :> 7461)
    @@ (386368 :> 7808) @@ (387368 :> 6266) @@ (493824 :> 5830)
    @@ (494824 :> 6811) @@ (495824 :> 2680) @@ (496824 :> 9003)
    @@ (497824 :> 9469) @@ (498824 :> 4461) @@ (499824 :> 998)
    @@ (500824 :> 1728) @@ (501824 :> 1239) @@ (502824 :> 6960)
    @@ (503824 :> 2857) @@ (504824 :> 4975) @@ (505824 :> 2072)
    @@ (506824 :> 4794) @@ (507824 :> 2548) @@ (508824 :> 3694)
    @@ (509824 :> 4163) @@ (510824 :> 3632) @@ (617280 :> 7751)
    @@ (618280 :> 3935) @@ (619280 :> 8521) @@ (620280 :> 8090)
    @@ (621280 :> 5981) @@ (622280 :> 2121) @@ (623280 :> 8554)
    @@ (624280 :> 1991) @@ (625280 :> 2041) @@ (626280 :> 793)
    @@ (627280 :> 4048) @@ (628280 :> 7881) @@ (629280 :> 3334)
    @@ (630280 :> 5300) @@ (631280 :> 5095) @@ (632280 :> 3834)
    @@ (633280 :> 6045) @@ (634280 :> 499) @@ (740736 :> 1098)
    @@ (741736 :> 9352) @@ (742736 :> 4828) @@ (743736 :> 4034)
    @@ (744736 :> 594) @@ (745736 :> 5070) @@ (746736 :> 6212)
    @@ (747736 :> 4003) @@ (748736 :> 5545) @@ (749736 :> 433)
    @@ (750736 :> 5332) @@ (751736 :> 6841) @@ (752736 :> 869)
    @@ (753736 :> 4393) @@ (754736 :> 8737) @@ (755736 :> 821)
    @@ (756736 :> 8002) @@ (757736 :> 5485) @@ (864192 :> 276)
    @@ (865192 :> 5537) @@ (866192 :> 5850) @@ (867192 :> 9091)
    @@ (868192 :> 7550) @@ (869192 :> 6883) @@ (870192 :> 6090)
    @@ (871192 :> 4257) @@ (872192 :> 5404) @@ (873192 :> 7092)
    @@ (874192 :> 1980) @@ (875192 :> 8832) @@ (876192 :> 9611)
    @@ (877192 :> 7727) @@ (878192 :> 1958) @@ (879192 :> 8738)
    @@ (880192 :> 2166) @@ (881192 :> 9399) @@ (987648 :> 8896)
    @@ (988648 :> 5398) @@ (989648 :> 243) @@ (990648 :> 1665)
    @@ (991648 :> 4420) @@ (992648 :> 6555) @@ (993648 :> 5307)
    @@ (994648 :> 6314) @@ (995648 :> 6233) @@ (996648 :> 1405)
    @@ (997648 :> 3894) @@ (998648 :> 654) @@ (999648 :> 8472)
    @@ (1000648 :> 1301) @@ (1001648 :> 2916) @@ (1002648 :> 7093)
    @@ (1003648 :> 2427) @@ (1004648 :> 8116) @@ (1111104 :> 9699)
    @@ (1112104 :> 192) @@ (1113104 :> 910) @@ (1114104 :> 5811)
    @@ (1115104 :> 9229) @@ (1116104 :> 8672) @@ (1117104 :> 4770)
    @@ (1118104 :> 2974) @@ (1119104 :> 3201) @@ (1120104 :> 4495)
    @@ (1121104 :> 7633) @@ (1122104 :> 9752) @@ (1123104 :> 1817)
    @@ (1124104 :> 2556) @@ (1125104 :> 1898) @@ (1126104 :> 606)
    @@ (1127104 :> 74) @@ (1128104 :> 1292) @@ (1234560 :> 721)
    @@ (1235560 :> 9439) @@ (1236560 :> 4788) @@ (1237560 :> 5198)
    @@ (1238560 :> 2388) @@ (1239560 :> 2779) @@ (1240560 :> 7448)
    @@ (1241560 :> 2677) @@ (1242560 :> 579) @@ (1243560 :> 1995)
    @@ (1244560 :> 1624) @@ (1245560 :> 8175) @@ (1246560 :> 266)
    @@ (1247560 :> 4811) @@ (1248560 :> 7928) @@ (1249560 :> 2387)
    @@ (1250560 :> 6736) @@ (1251560 :> 4062)

\* mutant: the generator keeps the state the previous call left behind
seededRandom_Stateful(seed) ==
  (seededRandomValues[seed] + (1234 * Len(lastCall.returned))) % RandomScale

\* WatercolorEffect.seededRandom
seededRandom(seed) == seededRandomValues[seed]

\* the numeric tokens of a path description, in order
Numbers(pathData) == SelectSeq(pathData, IsNumber)

\* WatercolorEffect.extractCoordinatesFromPath: the numbers taken two by two
extractCoordinatesFromPath(pathData) ==
  LET numbers == Numbers(pathData)
  IN  [k \in 1..(Len(numbers) \div 2) |->
         Point(parseFloat(numbers[(2 * k) - 1]), parseFloat(numbers[2 * k]))]

\* how many numeric tokens stand among the first n tokens
NumbersUpTo(pathData, n) == Len(Numbers(SubSeq(pathData, 1, n)))

\* mutant: a number left over after the last pair is written anew as well
reconstructPathData_AllNumbers(originalPath, newCoords) ==
  [n \in 1..Len(originalPath) |->
     LET coordIndex == NumbersUpTo(originalPath, n) - 1
         coord == newCoords[(coordIndex \div 2) + 1]
     IN  IF IsNumber(originalPath[n]) /\ coordIndex < 2 * Len(newCoords)
         THEN toFixed(IF coordIndex % 2 = 0 THEN coord.x ELSE coord.y)
         ELSE IF IsNumber(originalPath[n]) THEN toFixed(parseFloat(originalPath[n]))
         ELSE originalPath[n]]

\* WatercolorEffect.reconstructPathData: the first 2 * newCoords.length
\* numeric tokens are replaced by the new coordinates, written by toFixed(2)
reconstructPathData(originalPath, newCoords) ==
  [n \in 1..Len(originalPath) |->
     LET coordIndex == NumbersUpTo(originalPath, n) - 1
         coord == newCoords[(coordIndex \div 2) + 1]
     IN  IF IsNumber(originalPath[n]) /\ coordIndex < 2 * Len(newCoords)
         THEN toFixed(IF coordIndex % 2 = 0 THEN coord.x ELSE coord.y)
         ELSE originalPath[n]]

\* mutant: the variation grows with the index and is not capped
maxOffset_Uncapped(variationIndex) == variationIndex * 2

\* Math.min(8, variationIndex * 2)
maxOffset(variationIndex) == Min(8, variationIndex * 2)

\* seededRandom(seed + n) * maxOffset - maxOffset / 2, in units; the seed is
\* variationIndex * 123.456
Offset(variationIndex, n) ==
  LET random == seededRandom((variationIndex * 123456) + (n * 1000))
      m == maxOffset(variationIndex)
  IN  RoundDiv(random * m * Fix, RandomScale) - RoundDiv(m * Fix, 2)

\* WatercolorEffect.createPathVariation
createPathVariation(originalPath, variationIndex) ==
  LET coords == extractCoordinatesFromPath(originalPath)
      variedCoords ==
        [k \in 1..Len(coords) |->
           Point(coords[k].x + Offset(variationIndex, (k - 1) * 2),
                 coords[k].y + Offset(variationIndex, ((k - 1) * 2) + 1))]
  IN  IF Len(coords) = 0 THEN originalPath
      ELSE reconstructPathData(originalPath, variedCoords)

HexDigits == <<"0", "1", "2", "3", "4", "5", "6", "7", "8", "9",
               "a", "b", "c", "d", "e", "f">>

UpperHexDigits == <<"0", "1", "2", "3", "4", "5", "6", "7", "8", "9",
                    "A", "B", "C", "D", "E", "F">>

\* [a-f\d] with the i flag
IsHexDigit(c) ==
  \E n \in 1..16 : c = HexDigits[n] \/ c = UpperHexDigits[n]

\* parseInt of one hexadecimal digit
HexValue(c) ==
  (CHOOSE n \in 1..16 : c = HexDigits[n] \/ c = UpperHexDigits[n]) - 1

\* WatercolorEffect.hexToRgb; ok is FALSE for null
hexToRgb(hex) ==
  LET digits == IF hex # <<>> /\ Head(hex) = "#" THEN Tail(hex) ELSE hex
      pair(k) == (16 * HexValue(digits[(2 * k) - 1])) + HexValue(digits[2 * k])
  IN  IF Len(digits) = 6 /\ \A k \in 1..6 : IsHexDigit(digits[k])
      THEN [ok |-> TRUE, r |-> pair(1), g |-> pair(2), b |-> pair(3)]
      ELSE [ok |-> FALSE, r |-> 0, g |-> 0, b |-> 0]

\* WatercolorEffect.rgbToHex, for whole channels in 0..255
rgbToHex(r, g, b) ==
  <<"#", HexDigits[(r \div 16) + 1], HexDigits[(r % 16) + 1],
         HexDigits[(g \div 16) + 1], HexDigits[(g % 16) + 1],
         HexDigits[(b \div 16) + 1], HexDigits[(b % 16) + 1]>>

\* mutant: the shift of a channel is variationIndex * 10 wide
VaryChannel_WideShift(channel, variationIndex, seed) ==
  LET variation == variationIndex * 10
      shifted == (channel * RandomScale) + (seededRandom(seed) * variation)
                   - ((variation * RandomScale) \div 2)
      clamped == Max(0, Min(255 * RandomScale, shifted))
  IN  (clamped + (RandomScale \div 2)) \div RandomScale

\* Math.round(Math.max(0, Math.min(255, channel + (seededRandom(seed) *
\* variation - variation / 2)))) with variation = variationIndex * 5
VaryChannel(channel, variationIndex, seed) ==
  LET variation == variationIndex * 5
      shifted == (channel * RandomScale) + (seededRandom(seed) * variation)
                   - ((variation * RandomScale) \div 2)
      clamped == Max(0, Min(255 * RandomScale, shifted))
  IN  (clamped + (RandomScale \div 2)) \div RandomScale

\* WatercolorEffect.varyColor
varyColor(baseColor, variationIndex) ==
  LET rgb == hexToRgb(baseColor)
  IN  IF ~rgb.ok THEN baseColor
      ELSE rgbToHex(VaryChannel(rgb.r, variationIndex, variationIndex * 7000),
                    VaryChannel(rgb.g, variationIndex, variationIndex * 11000),
                    VaryChannel(rgb.b, variationIndex, variationIndex * 13000))

\* mutant: the first layer is a variation like the others
generateWatercolorLayers_VariedBase(pathData, baseColor, layers) ==
  [n \in 1..Max(1, layers) |->
     [pathData |-> createPathVariation(pathData, n),
      opacity |-> 200,
      color |-> varyColor(baseColor, n)]]

\* mutant: the opacity of the variations has no floor
generateWatercolorLayers_NoFloor(pathData, baseColor, layers) ==
  [n \in 1..Max(1, layers) |->
     IF n = 1 THEN [pathData |-> pathData, opacity |-> 200, color |-> baseColor]
     ELSE [pathData |-> createPathVariation(pathData, n - 1),
           opacity |-> 150 - ((n - 1) * 20),
           color |-> varyColor(baseColor, n - 1)]]

\* WatercolorEffect.generateWatercolorLayers: layer 0, then the variations
\* i = 1 .. layers - 1 with opacity Math.max(0.05, 0.15 - (i * 0.02))
generateWatercolorLayers(pathData, baseColor, layers) ==
  [n \in 1..Max(1, layers) |->
     IF n = 1 THEN [pathData |-> pathData, opacity |-> 200, color |-> baseColor]
     ELSE [pathData |-> createPathVariation(pathData, n - 1),
           opacity |-> Max(50, 150 - ((n - 1) * 20)),
           color |-> varyColor(baseColor, n - 1)]]

\* colors as the tool is given them: none, two CSS color names
NoColor == <<>>

Pink == <<"p", "i", "n", "k">>

LemonChiffon == <<"l", "e", "m", "o", "n", "c", "h", "i", "f", "f", "o", "n">>

(***************************************************************************)
(* Strings of markup.  A string is a sequence of tokens: a token is one    *)
(* piece of the base document ("<svg", ">", any other character "x", a     *)
(* line break) or one element that generateSVGOutput pushes.               *)
(***************************************************************************)
Token(kind, name) ==
  [kind |-> kind, name |-> name, url |-> "", at |-> Point(0, 0),
   layer |-> 0, d |-> <<>>, fill |-> <<>>, opacity |-> 0, curve |-> "",
   text |-> ""]

\* one piece of text that is not generated markup
Ch(c) == Token("char", c)

NL == Ch("\n")

RECURSIVE Join(_)
\* lines.join('\n')
Join(lines) ==
  IF Len(lines) <= 1 THEN lines
  ELSE <<Head(lines), NL>> \o Join(Tail(lines))

RECURSIVE Concat(_)
\* the elements pushed by the whole loop over results, pass after pass
Concat(lists) ==
  IF lists = <<>> THEN <<>> ELSE Head(lists) \o Concat(Tail(lists))

\* svgContent?: undefined, or a string
Undefined == [given |-> FALSE, text |-> <<>>]

Document(text) == [given |-> TRUE, text |-> text]

\* !svgContent: undefined and the empty string are both falsy
Falsy(content) == ~content.given \/ content.text = <<>>

\* mutant: any ">" is taken for the end of an opening tag
SvgMatch_AnyClose(text) ==
  LET ends == {j \in 1..Len(text) : text[j] = Ch(">")}
  IN  IF ends = {} THEN [start |-> 0, end |-> 0]
      ELSE LET j0 == CHOOSE j \in ends : \A k \in ends : j <= k
           IN  [start |-> j0, end |-> j0]

\* mutant: the match ends where the tag name does, ahead of the ">"
SvgMatch_NameOnly(text) ==
  LET starts == {i \in 1..Len(text) :
                   /\ text[i] = Ch("<svg")
                   /\ \E j \in (i + 1)..Len(text) : text[j] = Ch(">")}
  IN  IF starts = {} THEN [start |-> 0, end |-> 0]
      ELSE LET i0 == CHOOSE i \in starts : \A k \in starts : i <= k
           IN  [start |-> i0, end |-> i0]

\* svgContent.match(/<svg[^>]*>/): the first "<svg" that a ">" follows, up to
\* the first ">" after it; start = 0 when there is no match
SvgMatch(text) ==
  LET starts == {i \in 1..Len(text) :
                   /\ text[i] = Ch("<svg")
                   /\ \E j \in (i + 1)..Len(text) : text[j] = Ch(">")}
  IN  IF starts = {} THEN [start |-> 0, end |-> 0]
      ELSE LET i0 == CHOOSE i \in starts : \A k \in starts : i <= k
               ends == {j \in (i0 + 1)..Len(text) : text[j] = Ch(">")}
           IN  [start |-> i0, end |-> CHOOSE j \in ends : \A k \in ends : j <= k]

(***************************************************************************)
(* The collaborators of generateSVGOutput.                                 *)
(***************************************************************************)
ValidCurveTypes == {"linear", "catmull-rom", "cardinal", "basis", "basis-closed"}

\* SplineGenerator.generateSpline throws for an unknown curve family
SplineThrows(config) == config.type \notin ValidCurveTypes

\* SplineGenerator.generateSpline(points, config).pathData: a move to the
\* first point, a segment of the curve family to each further point, closed
generateSpline(ps, config) ==
  IF ps = <<>> THEN <<>>
  ELSE Concat([k \in 1..Len(ps) |->
                 <<Cmd(IF k = 1 THEN "M" ELSE config.type),
                   Num(ps[k].x), Cmd(","), Num(ps[k].y)>>]) \o <<Cmd("Z")>>

LayerCount == 6

\* mutant: the first point stands in for the mean
calculateCentroid_FirstPoint(ps) ==
  IF Len(ps) = 0 THEN Point(0, 0) ELSE ps[1]

\* GeometryUtils.calculateCentroid
calculateCentroid(ps) ==
  IF Len(ps) = 0 THEN Point(0, 0)
  ELSE Point(DivCount(SumX(ps), Len(ps)), DivCount(SumY(ps), Len(ps)))

\* mutant: the element carries data-label-for but no text of its own
createTextElement_NoText(name, centroid) ==
  [Token("text", name) EXCEPT !.at = Point(ToFixed2(centroid.x), ToFixed2(centroid.y))]

\* ERDHullCLI.createTextElement: <text x y ... data-label-for=name>name</text>
createTextElement(name, centroid) ==
  [Token("text", name) EXCEPT
     !.at = Point(ToFixed2(centroid.x), ToFixed2(centroid.y)), !.text = name]

\* result.color || '#E5F3FF'
FillColor(result) ==
  IF result.color = <<>> THEN <<"#", "E", "5", "F", "3", "F", "F">>
  ELSE result.color

\* the <path .../> elements of one result, one per watercolor layer
PathElements(result, config) ==
  LET splineResult == generateSpline(result.points, config)
      watercolorLayers == generateWatercolorLayers(splineResult, FillColor(result), LayerCount)
  IN  [i \in 1..Len(watercolorLayers) |->
         [Token("path", result.name) EXCEPT
            !.layer = i - 1, !.d = watercolorLayers[i].pathData,
            !.fill = watercolorLayers[i].color,
            !.opacity = watercolorLayers[i].opacity, !.curve = config.type]]

TextLabel(result) ==
  createTextElement(result.name, calculateCentroid(result.points))

\* mutant: the label is pushed ahead of its layer group
FragmentElements_LabelFirst(result, config) ==
  <<TextLabel(result), Token("gOpen", result.name)>>
    \o PathElements(result, config) \o <<Token("gClose", result.name)>>

\* what one pass of the loop without a base document pushes to elements
FragmentElements(result, config) ==
  <<Token("gOpen", result.name)>> \o PathElements(result, config)
    \o <<Token("gClose", result.name), TextLabel(result)>>

\* what one pass of the loop with a base document pushes to splinePaths
SplinePathElements(result, config) ==
  <<Token("hullComment", result.name)>>
    \o (IF result.url # ""
        THEN <<[Token("aOpen", result.name) EXCEPT !.url = result.url],
               Token("gOpen", result.name)>>
               \o PathElements(result, config)
               \o <<Token("gClose", result.name), Token("aClose", result.name)>>
        ELSE <<Token("gOpen", result.name)>>
               \o PathElements(result, config)
               \o <<Token("gClose", result.name)>>)

\* what one pass of the loop with a base document pushes to textLabels
TextLabelElements(result) ==
  <<Token("labelComment", result.name), TextLabel(result)>>

Returned(text) == [error |-> "", text |-> text]

Thrown(message) == [error |-> message, text |-> <<>>]

\* mutant: with a base document each label is pushed right after its group,
\* as in the loop without one
generateSVGOutput_Interleaved(rs, config, content) ==
  IF Falsy(content)
  THEN IF rs # <<>> /\ SplineThrows(config) THEN Thrown("Invalid curve type")
       ELSE Returned(Join(Concat([i \in 1..Len(rs) |-> FragmentElements(rs[i], config)])))
  ELSE LET svgMatch == SvgMatch(content.text)
           openingSvgIndex == svgMatch.end
           beforePath == SubSeq(content.text, 1, openingSvgIndex)
           afterPath == SubSeq(content.text, openingSvgIndex + 1, Len(content.text))
           both(r, c) == SplinePathElements(r, c) \o TextLabelElements(r)
       IN  IF svgMatch.start = 0 THEN Thrown("Invalid SVG: missing opening <svg> tag")
           ELSE IF rs # <<>> /\ SplineThrows(config) THEN Thrown("Invalid curve type")
           ELSE Returned(beforePath \o <<NL>>
                           \o Join(Concat([i \in 1..Len(rs) |-> both(rs[i], config)])) \o <<NL>>
                           \o afterPath)

\* mutant: the labels are put after the rest of the base document
generateSVGOutput_LabelsLast(rs, config, content) ==
  IF Falsy(content)
  THEN IF rs # <<>> /\ SplineThrows(config) THEN Thrown("Invalid curve type")
       ELSE Returned(Join(Concat([i \in 1..Len(rs) |-> FragmentElements(rs[i], config)])))
  ELSE LET svgMatch == SvgMatch(content.text)
           openingSvgIndex == svgMatch.end
           beforePath == SubSeq(content.text, 1, openingSvgIndex)
           afterPath == SubSeq(content.text, openingSvgIndex + 1, Len(content.text))
           labels(r, c) == TextLabelElements(r)
       IN  IF svgMatch.start = 0 THEN Thrown("Invalid SVG: missing opening <svg> tag")
           ELSE IF rs # <<>> /\ SplineThrows(config) THEN Thrown("Invalid curve type")
           ELSE Returned(beforePath \o <<NL>>
                           \o Join(Concat([i \in 1..Len(rs) |->
                                             SplinePathElements(rs[i], config)]))
                           \o <<NL>>
                           \o afterPath \o <<NL>>
                           \o Join(Concat([i \in 1..Len(rs) |-> labels(rs[i], config)])))

\* ERDHullCLI.generateSVGOutput
generateSVGOutput(rs, config, content) ==
  IF Falsy(content)
  THEN IF rs # <<>> /\ SplineThrows(config) THEN Thrown("Invalid curve type")
       ELSE Returned(Join(Concat([i \in 1..Len(rs) |-> FragmentElements(rs[i], config)])))
  ELSE LET svgMatch == SvgMatch(content.text)
           openingSvgIndex == svgMatch.end
           beforePath == SubSeq(content.text, 1, openingSvgIndex)
           afterPath == SubSeq(content.text, openingSvgIndex + 1, Len(content.text))
           labels(r, c) == TextLabelElements(r)
       IN  IF svgMatch.start = 0 THEN Thrown("Invalid SVG: missing opening <svg> tag")
           ELSE IF rs # <<>> /\ SplineThrows(config) THEN Thrown("Invalid curve type")
           ELSE Returned(beforePath \o <<NL>>
                           \o Join(Concat([i \in 1..Len(rs) |->
                                             SplinePathElements(rs[i], config)]))
                           \o <<NL>>
                           \o Join(Concat([i \in 1..Len(rs) |-> labels(rs[i], config)])) \o <<NL>>
                           \o afterPath)

(***************************************************************************)
(* The collaborators of run: the focus-area file, the parsed document and  *)
(* the hull calculator.                                                    *)
(***************************************************************************)
\* a record of the focus-areas file as yaml.load returns it: the values of its
\* fields and, in type, what kind of value each validated field holds
\* ("undefined" for a field the record lacks; its value is then never read)
YamlRecord(name, label, color, areas, url, type) ==
  [name |-> name, label |-> label, color |-> color, areas |-> areas, url |-> url,
   type |-> type]

AllPresent ==
  [name |-> "string", label |-> "string", color |-> "string", areas |-> "array"]

\* a record with every required field; "" for no url
FocusArea(name, color, areas, url) ==
  YamlRecord(name, name, color, areas, url, AllPresent)

\* !area[field] || typeof area[field] !== 'string'
NotAString(area, field) ==
  \/ area.type[field] # "string"
  \/ area[field] = (IF field = "color" THEN <<>> ELSE "")

\* mutant: the label of a record is not validated
RecordThrows_NoLabelCheck(area) ==
  \/ NotAString(area, "name")
  \/ NotAString(area, "color")
  \/ area.type.areas # "array"

\* the validation of one record in FocusAreaParser.parseFocusAreasFile
RecordThrows(area) ==
  \/ NotAString(area, "name")
  \/ NotAString(area, "label")
  \/ NotAString(area, "color")
  \/ area.type.areas # "array"

\* FocusAreaParser.parseFocusAreasFile on the value that yaml.load gives:
\* yaml.kind is "array", "scalar", or "malformed" when yaml.load throws
parseFocusAreasFile(yaml) ==
  IF yaml.kind = "malformed"
  THEN [error |-> "Failed to parse focus areas file", areas |-> <<>>]
  ELSE IF yaml.kind # "array"
  THEN [error |-> "Failed to parse focus areas file", areas |-> <<>>]
  ELSE IF \E i \in 1..Len(yaml.content) : RecordThrows(yaml.content[i])
  THEN [error |-> "Failed to parse focus areas file", areas |-> <<>>]
  ELSE [error |-> "", areas |-> yaml.content]

\* mutant: an unknown name falls back on all the focus areas
AreasNamed_OrAll(areas, name) ==
  IF SelectSeq(areas, LAMBDA a : a.name = name) = <<>> THEN areas
  ELSE SelectSeq(areas, LAMBDA a : a.name = name)

\* the focus areas named name, in file order
AreasNamed(areas, name) == SelectSeq(areas, LAMBDA a : a.name = name)

\* focusAreas.find(area => area.name === focusAreaName) found nothing
FocusAreaMissing(areas, name) == AreasNamed(areas, name) = <<>>

\* FocusAreaParser.getEntitiesForFocusArea
getEntitiesForFocusArea(areas, name) == Head(AreasNamed(areas, name)).areas

\* FocusAreaParser.getColorForFocusArea
getColorForFocusArea(areas, name) == Head(AreasNamed(areas, name)).color

\* FocusAreaParser.getUrlForFocusArea; "" for no url
getUrlForFocusArea(areas, name) == Head(AreasNamed(areas, name)).url

\* mutant: the names are listed last to first
listAvailableFocusAreas_Reversed(areas) ==
  [i \in 1..Len(areas) |-> areas[Len(areas) + 1 - i].name]

\* FocusAreaParser.listAvailableFocusAreas
listAvailableFocusAreas(areas) == [i \in 1..Len(areas) |-> areas[i].name]

\* the entity groups of the parsed document, each with the centre points of
\* its elements
EntityGroups == {"Measurer", "Evaluator"}

GroupPoints(entity) ==
  IF entity = "Measurer"
  THEN <<Point(0, 0), Point(2 * Fix, 0), Point(0, Fix)>>
  ELSE <<Point(4 * Fix, 0), Point(4 * Fix, 2 * Fix)>>

RECURSIVE extractPointsFromEntityGroups(_)
\* SVGParser.extractPointsFromEntityGroups: groups not found are skipped
extractPointsFromEntityGroups(names) ==
  IF names = <<>> THEN <<>>
  ELSE (IF Head(names) \in EntityGroups THEN GroupPoints(Head(names)) ELSE <<>>)
         \o extractPointsFromEntityGroups(Tail(names))

\* HullCalculator.calculateConcaveHull throws for fewer than 3 points
HullThrows(ps) == Len(ps) < 3

\* HullCalculator.calculateConcaveHull(...).points, kept as the input points
calculateConcaveHull(ps) == ps

(***************************************************************************)
(* ERDHullCLI.run: the action handler, step by step.                       *)
(***************************************************************************)
Running == 0 - 1

\* console.error(message)
Log(messages) == stderr \o messages

\* if (options.verbose) console.error(...)
Verbose(messages) == IF options.verbose THEN messages ELSE <<>>

\* mutant: the catch block logs the error and forgets process.exit(1)
Catch_NoExit(logged, message) ==
  /\ stderr' = Log(logged \o <<"Error: " \o message>>)
  /\ exitCode' = 0
  /\ pc' = "exited"
  /\ UNCHANGED stdout

\* throw new Error(message), after logging `logged`: the catch block writes
\* the message to the diagnostic stream and exits with status 1
Catch(logged, message) ==
  /\ stderr' = Log(logged \o <<"Error: " \o message>>)
  /\ exitCode' = 1
  /\ pc' = "exited"
  /\ UNCHANGED stdout

\* a step that neither throws nor prints the result
Goto(logged, label) ==
  /\ stderr' = Log(logged)
  /\ pc' = label
  /\ UNCHANGED <<stdout, exitCode>>

inputVars == <<entityNames, options, files, earlier>>

\* mutant: the curve type is not validated up front
ValidateArguments_NoCurveCheck ==
  /\ pc = "start"
  /\ IF Len(entityNames) = 0 /\ ~options.areas
     THEN Catch(<<>>, "Either entity names or --areas file must be provided")
     ELSE Goto(<<>>, "checkSvg")
  /\ UNCHANGED <<inputVars, focusAreas, focusAreaNames, io, composeVars>>

\* index.ts 192-202
ValidateArguments ==
  /\ pc = "start"
  /\ IF Len(entityNames) = 0 /\ ~options.areas
     THEN Catch(<<>>, "Either entity names or --areas file must be provided")
     ELSE IF options.curveType \notin ValidCurveTypes
     THEN Catch(<<>>, "Invalid curve type")
     ELSE Goto(<<>>, "checkSvg")
  /\ UNCHANGED <<inputVars, focusAreas, focusAreaNames, io, composeVars>>

\* index.ts 204-209
CheckSvgExists ==
  /\ pc = "checkSvg"
  /\ io' = Append(io, "existsSync(svg)")
  /\ IF ~files.svg.exists THEN Catch(<<>>, "SVG file not found")
     ELSE Goto(<<>>, "areas")
  /\ UNCHANGED <<inputVars, focusAreas, focusAreaNames, composeVars>>

\* index.ts 211-241
LoadFocusAreas ==
  /\ pc = "areas"
  /\ LET loading == <<"Loading SVG file", "Concavity", "Length threshold">>
     IN  IF ~options.areas
         THEN /\ Goto(Verbose(loading), "parse")
              /\ focusAreaNames' = entityNames
              /\ UNCHANGED <<focusAreas, io>>
         ELSE IF ~files.areas.exists
         THEN /\ Catch(<<>>, "Focus areas file not found")
              /\ io' = Append(io, "existsSync(areas)")
              /\ UNCHANGED <<focusAreas, focusAreaNames>>
         ELSE IF parseFocusAreasFile(files.areas).error # ""
         THEN /\ Catch(<<>>, parseFocusAreasFile(files.areas).error)
              /\ io' = io \o <<"existsSync(areas)", "readFileSync(areas)">>
              /\ UNCHANGED <<focusAreas, focusAreaNames>>
         ELSE LET loaded == parseFocusAreasFile(files.areas).areas
                  all == listAvailableFocusAreas(loaded)
              IN  /\ focusAreas' = loaded
                  /\ focusAreaNames' = IF Len(entityNames) = 0 THEN all ELSE entityNames
                  /\ io' = io \o <<"existsSync(areas)", "readFileSync(areas)">>
                  /\ Goto(Verbose((IF Len(entityNames) = 0
                                   THEN <<"No focus areas specified, using all">>
                                   ELSE <<>>)
                                  \o <<"Focus areas file", "Processing focus area(s)">>
                                  \o loading),
                          "parse")
  /\ UNCHANGED <<inputVars, composeVars>>

\* index.ts 243-244: new SVGParser(svgPath) loads and parses the document
ParseSvg ==
  /\ pc = "parse"
  /\ io' = Append(io, "SVGParser(svg)")
  /\ IF ~files.svg.parses THEN Catch(<<>>, "Failed to parse SVG")
     ELSE Goto(<<>>, "process")
  /\ UNCHANGED <<inputVars, focusAreas, focusAreaNames, composeVars>>

\* mutant: the padding grows with every result pushed
PushResult_GrowingPadding(name, found, ps, color, url) ==
  IF HullThrows(ps)
  THEN /\ Catch(Verbose(found), "Insufficient points for hull")
       /\ UNCHANGED results
  ELSE LET result == calculateConcaveHull(ps)
           paddedPoints == addPadding(result, options.padding * (Len(results) + 1))
       IN  /\ results' = Append(results,
                                [name |-> name, points |-> paddedPoints,
                                 color |-> color, url |-> url])
           /\ Goto(Verbose(found \o <<"Hull calculated", "Area, Perimeter">>),
                   IF options.areas /\ Len(results) + 1 < Len(focusAreaNames)
                   THEN "process" ELSE "read")

\* the hull, padding and push that end both branches of the loop
PushResult(name, found, ps, color, url) ==
  IF HullThrows(ps)
  THEN /\ Catch(Verbose(found), "Insufficient points for hull")
       /\ UNCHANGED results
  ELSE LET result == calculateConcaveHull(ps)
           paddedPoints == addPadding(result, options.padding)
       IN  /\ results' = Append(results,
                                [name |-> name, points |-> paddedPoints,
                                 color |-> color, url |-> url])
           /\ Goto(Verbose(found \o <<"Hull calculated", "Area, Perimeter">>),
                   IF options.areas /\ Len(results) + 1 < Len(focusAreaNames)
                   THEN "process" ELSE "read")

\* mutant: a focus area naming a group the document lacks is refused
ProcessFocusArea_RequireGroups ==
  /\ pc = "process" /\ options.areas /\ Len(results) < Len(focusAreaNames)
  /\ LET focusAreaName == focusAreaNames[Len(results) + 1]
     IN  IF FocusAreaMissing(focusAreas, focusAreaName)
         THEN Catch(<<>>, "Focus area not found") /\ UNCHANGED results
         ELSE LET entities == getEntitiesForFocusArea(focusAreas, focusAreaName)
              IN  IF \E k \in 1..Len(entities) : entities[k] \notin EntityGroups
                  THEN Catch(<<>>, "Entity group not found") /\ UNCHANGED results
                  ELSE PushResult(focusAreaName,
                                  <<"Processing focus area", "Found points for focus area">>,
                                  extractPointsFromEntityGroups(entities),
                                  getColorForFocusArea(focusAreas, focusAreaName),
                                  getUrlForFocusArea(focusAreas, focusAreaName))
  /\ UNCHANGED <<inputVars, focusAreas, focusAreaNames, io,
                 splineConfig, svgContent, output>>

\* index.ts 258-297: one pass of the loop over focusAreaNames
ProcessFocusArea ==
  /\ pc = "process" /\ options.areas /\ Len(results) < Len(focusAreaNames)
  /\ LET focusAreaName == focusAreaNames[Len(results) + 1]
     IN  IF FocusAreaMissing(focusAreas, focusAreaName)
         THEN Catch(<<>>, "Focus area not found") /\ UNCHANGED results
         ELSE LET entities == getEntitiesForFocusArea(focusAreas, focusAreaName)
              IN  PushResult(focusAreaName,
                             <<"Processing focus area", "Found points for focus area">>,
                             extractPointsFromEntityGroups(entities),
                             getColorForFocusArea(focusAreas, focusAreaName),
                             getUrlForFocusArea(focusAreas, focusAreaName))
  /\ UNCHANGED <<inputVars, focusAreas, focusAreaNames, io,
                 splineConfig, svgContent, output>>

\* mutant: the group is named by its first entity name alone
DisplayName_First(names) == IF Len(names) = 0 THEN "" ELSE names[1]

\* entityNames.length === 1 ? entityNames[0] : entityNames.join('+')
DisplayName(names) ==
  IF Len(names) = 0 THEN ""
  ELSE IF Len(names) = 1 THEN names[1]
  ELSE IF Len(names) = 2 THEN names[1] \o "+" \o names[2]
  ELSE names[1] \o "+" \o names[2] \o "+" \o names[3]

\* index.ts 256, 297: the loop over no focus area names at all
ProcessNoFocusArea ==
  /\ pc = "process" /\ options.areas /\ Len(focusAreaNames) = 0
  /\ Goto(<<>>, "read")
  /\ UNCHANGED <<inputVars, focusAreas, focusAreaNames, io, composeVars>>

\* index.ts 298-330: all entity names as one group
ProcessEntityGroup ==
  /\ pc = "process" /\ ~options.areas
  /\ PushResult(DisplayName(entityNames),
                <<"Searching for entities", "Found points in entity group">>,
                extractPointsFromEntityGroups(entityNames), NoColor, "")
  /\ UNCHANGED <<inputVars, focusAreas, focusAreaNames, io,
                 splineConfig, svgContent, output>>

\* index.ts 332-351: the padding message, readFileSync, splineConfig and
\* generateSVGOutput
ComposeOutput ==
  /\ pc = "read"
  /\ io' = Append(io, "readFileSync(svg)")
  /\ LET content == Document(files.svg.text)
         config == [type |-> options.curveType]
         composed == generateSVGOutput(results, config, content)
         padding == IF options.padding > 0 THEN <<"Applied padding">> ELSE <<>>
     IN  /\ svgContent' = content
         /\ splineConfig' = config
         /\ output' = composed
         /\ IF composed.error # "" THEN Catch(Verbose(padding), composed.error)
            ELSE Goto(Verbose(padding), "print")
  /\ UNCHANGED <<inputVars, focusAreas, focusAreaNames, results>>

\* mutant: the output is printed once per result
PrintOutput_PerResult ==
  /\ pc = "print"
  /\ stdout' = stdout \o [i \in 1..Len(results) |-> output.text]
  /\ io' = io \o [i \in 1..Len(results) |-> "stdout"]
  /\ exitCode' = 0
  /\ pc' = "exited"
  /\ UNCHANGED <<inputVars, focusAreas, focusAreaNames, stderr, composeVars>>

\* mutant: with --verbose the output is not printed
PrintOutput_NotWhenVerbose ==
  /\ pc = "print"
  /\ stdout' = IF options.verbose THEN stdout ELSE Append(stdout, output.text)
  /\ io' = Append(io, "stdout")
  /\ exitCode' = 0
  /\ pc' = "exited"
  /\ UNCHANGED <<inputVars, focusAreas, focusAreaNames, stderr, composeVars>>

\* index.ts 353: console.log(output), after which the process ends normally
PrintOutput ==
  /\ pc = "print"
  /\ stdout' = Append(stdout, output.text)
  /\ io' = Append(io, "stdout")
  /\ exitCode' = 0
  /\ pc' = "exited"
  /\ UNCHANGED <<inputVars, focusAreas, focusAreaNames, stderr, composeVars>>

(***************************************************************************)
(* SpecPadding: a bounded point list, then up to MaxCalls calls of         *)
(* addPadding, each on the result of the one before.                       *)
(***************************************************************************)
MaxCoord == 2
MaxLen == 3
MaxHalf == 5
MaxCalls == 2

Grid == {Point(gx * Fix, gy * Fix) : gx \in 0..MaxCoord, gy \in 0..1}

RECURSIVE SeqsUpTo(_, _)
SeqsUpTo(S, n) ==
  IF n = 0 THEN {<<>>}
  ELSE LET shorter == SeqsUpTo(S, n - 1)
       IN  shorter \cup {Append(s, e) : s \in {t \in shorter : Len(t) = n - 1}, e \in S}

\* the corners of an axis-aligned rectangle about (cx, cy), in drawing order
Rect(cx, cy, hw, hh) ==
  << Point((cx - hw) * Fix, (cy - hh) * Fix), Point((cx + hw) * Fix, (cy - hh) * Fix),
     Point((cx + hw) * Fix, (cy + hh) * Fix), Point((cx - hw) * Fix, (cy + hh) * Fix) >>

Rects ==
  {Rect(cx, cy, hw, hh) : cx \in 0..MaxCoord, cy \in 0..1,
                          hw \in 1..MaxHalf, hh \in 1..MaxHalf}

PointLists == SeqsUpTo(Grid, MaxLen) \cup Rects

Paddings == {0 - (2 * Fix), 0, 2 * Fix, 5 * Fix}

PadIdle ==
  /\ points = <<>>
  /\ before = <<>>
  /\ padded = <<>>
  /\ applied = <<>>

(***************************************************************************)
(* SpecCompose: one call of generateSVGOutput on bounded arguments.        *)
(***************************************************************************)
MaxResults == 2
MaxDoc == 4

\* the padded hull of each group: a square about (1, 1), a triangle
HullOf(name) ==
  IF name = "Carlos" THEN Rect(1, 1, 1, 1)
  ELSE <<Point(0, 0), Point(2 * Fix, 0), Point(0, Fix)>>

\* results as run builds them: from entity names (no color, no url), from a
\* focus area with a color and a url, and one without points
ResultRecords ==
  {[name |-> "Carlos", points |-> HullOf("Carlos"), color |-> NoColor, url |-> ""],
   [name |-> "Luca", points |-> HullOf("Luca"), color |-> Pink,
    url |-> "https://example.com"],
   [name |-> "Luca", points |-> <<>>, color |-> LemonChiffon, url |-> ""]}

DocAlphabet == {Ch("<svg"), Ch(">"), Ch("x")}

Documents == {Undefined} \cup {Document(t) : t \in SeqsUpTo(DocAlphabet, MaxDoc)}

NotCalled == [error |-> "not called", text |-> <<>>]

ComposeInit ==
  /\ results \in SeqsUpTo(ResultRecords, MaxResults)
  /\ splineConfig \in {[type |-> t] : t \in {"catmull-rom", "bogus"}}
  /\ svgContent \in Documents
  /\ output = NotCalled

\* one call output = this.generateSVGOutput(results, splineConfig, svgContent)
GenerateSVGOutput ==
  /\ output = NotCalled
  /\ output' = generateSVGOutput(results, splineConfig, svgContent)
  /\ UNCHANGED <<results, splineConfig, svgContent>>

ComposeIdle ==
  /\ results = <<>>
  /\ splineConfig = [type |-> "catmull-rom"]
  /\ svgContent = Undefined
  /\ output = NotCalled

(***************************************************************************)
(* Spec: one invocation of the tool, on bounded arguments and files.       *)
(***************************************************************************)
MaxArgs == 2

\* positional arguments: focus area names with --areas, entity names without
ArgNames == {"Carlos", "Luca", "Measurer", "Evaluator"}

\* the document named by --svg: missing, malformed, well-formed without an
\* <svg ...> opening tag, and a plain SVG document
SvgFiles ==
  {[exists |-> FALSE, parses |-> FALSE, text |-> <<>>],
   [exists |-> TRUE, parses |-> FALSE, text |-> <<Ch("x")>>],
   [exists |-> TRUE, parses |-> TRUE, text |-> <<Ch("x")>>],
   [exists |-> TRUE, parses |-> TRUE, text |-> <<Ch("<svg"), Ch(">"), Ch("x")>>]}

\* no invocation before this one
NoEarlier == [ran |-> FALSE, verbose |-> FALSE, stdout |-> <<>>, stderr |-> <<>>,
              exitCode |-> Running]

NoAreasFile == [exists |-> FALSE, kind |-> "malformed", content |-> <<>>]

\* a file that yaml.load reads as a list of records
YamlList(records) == [exists |-> TRUE, kind |-> "array", content |-> records]

\* a record that lacks the field, and one that holds "" in it
Without(area, field) == [area EXCEPT !.type[field] = "undefined"]

Emptied(area, field) ==
  [area EXCEPT ![field] = IF field = "color" THEN <<>> ELSE ""]

Carlos == FocusArea("Carlos", Pink, <<"Measurer">>, "")

Luca ==
  FocusArea("Luca", LemonChiffon, <<"Measurer", "Evaluator">>, "https://example.com")

\* the file named by --areas: missing, not YAML, not a list, lists with a
\* record that fails the validation, and lists of focus areas (one with a
\* name twice, the last with "Ghost", an entity the document lacks)
AreasFiles ==
  {NoAreasFile,
   [exists |-> TRUE, kind |-> "malformed", content |-> <<>>],
   [exists |-> TRUE, kind |-> "scalar", content |-> <<>>],
   YamlList(<<Carlos, Without(Luca, "label")>>),
   YamlList(<<Emptied(Carlos, "color"), Luca>>),
   YamlList(<<>>),
   YamlList(<<Carlos, Luca>>),
   YamlList(<<Luca, Carlos>>),
   YamlList(<<Carlos, [Luca EXCEPT !.name = "Carlos"]>>),
   YamlList(<<FocusArea("Carlos", Pink, <<"Measurer", "Ghost">>, ""),
              FocusArea("Luca", LemonChiffon, <<"Ghost">>, "")>>)}

OptionSets ==
  [areas : BOOLEAN, curveType : {"catmull-rom", "bogus"}, verbose : BOOLEAN,
   padding : {0, 15 * Fix}]

RunIdle ==
  /\ pc = "idle"
  /\ entityNames = <<>>
  /\ options = [areas |-> FALSE, curveType |-> "catmull-rom",
                verbose |-> FALSE, padding |-> 0]
  /\ files = [svg |-> [exists |-> FALSE, parses |-> FALSE, text |-> <<>>],
              areas |-> NoAreasFile]
  /\ focusAreas = <<>>
  /\ focusAreaNames = <<>>
  /\ stdout = <<>>
  /\ stderr = <<>>
  /\ exitCode = Running
  /\ io = <<>>
  /\ earlier = NoEarlier

(***************************************************************************)
(* SpecRender: calls of generateWatercolorLayers, one after another, on    *)
(* bounded arguments: a first call, a second call, and then the first call *)
(* made again.                                                             *)
(***************************************************************************)
MaxLayers == 7

\* path descriptions: "", "Z", "M1.5,-1L3" (a pair and a number left over)
\* and the closed triangle "M0,0L2,0L0,1Z"
PathDescriptions ==
  {<<>>,
   <<Cmd("Z")>>,
   <<Cmd("M"), Num((3 * Fix) \div 2), Cmd(","), Num(0 - Fix), Cmd("L"), Num(3 * Fix)>>,
   <<Cmd("M"), Num(0), Cmd(","), Num(0), Cmd("L"), Num(2 * Fix), Cmd(","), Num(0),
     Cmd("L"), Num(0), Cmd(","), Num(Fix), Cmd("Z")>>}

\* base colors: "#E5F3FF", "pink", "00ff01", "#0f8" and "rgb(1,2,3)"
BaseColors ==
  {<<"#", "E", "5", "F", "3", "F", "F">>, Pink, <<"0", "0", "f", "f", "0", "1">>,
   <<"#", "0", "f", "8">>, <<"r", "g", "b", "(", "1", ",", "2", ",", "3", ")">>}

NoRender ==
  [called |-> FALSE, pathData |-> <<>>, baseColor |-> <<>>, layers |-> 0,
   returned |-> <<>>]

RenderIdle == firstCall = NoRender /\ previousCall = NoRender /\ lastCall = NoRender

\* the record of one call
\* returned = WatercolorEffect.generateWatercolorLayers(pathData, baseColor, layers)
Render(pathData, baseColor, layers) ==
  [called |-> TRUE, pathData |-> pathData, baseColor |-> baseColor,
   layers |-> layers,
   returned |-> generateWatercolorLayers(pathData, baseColor, layers)]

\* a call with any arguments
GenerateWatercolorLayers ==
  /\ ~previousCall.called
  /\ previousCall' = lastCall
  /\ \E pathData \in PathDescriptions, baseColor \in BaseColors,
        layers \in 0..MaxLayers :
       /\ lastCall' = Render(pathData, baseColor, layers)
       /\ firstCall' = IF firstCall.called THEN firstCall ELSE lastCall'

\* a call with the arguments of the first call
GenerateWatercolorLayersAgain ==
  /\ firstCall.called
  /\ previousCall' = lastCall
  /\ lastCall' = Render(firstCall.pathData, firstCall.baseColor, firstCall.layers)
  /\ UNCHANGED firstCall

vars == <<padVars, composeVars, runVars, renderVars>>

RenderInit == RenderIdle /\ PadIdle /\ ComposeIdle /\ RunIdle

RenderNext ==
  /\ GenerateWatercolorLayers \/ GenerateWatercolorLayersAgain
  /\ UNCHANGED <<padVars, composeVars, runVars>>

SpecRender == RenderInit /\ [][RenderNext]_vars

Init ==
  /\ pc = "start"
  /\ entityNames \in SeqsUpTo(ArgNames, MaxArgs)
  /\ options \in OptionSets
  /\ files \in [svg : SvgFiles,
                areas : IF options.areas THEN AreasFiles ELSE {NoAreasFile}]
  /\ focusAreas = <<>>
  /\ focusAreaNames = <<>>
  /\ stdout = <<>>
  /\ stderr = <<>>
  /\ exitCode = Running
  /\ io = <<>>
  /\ earlier = NoEarlier
  /\ ComposeIdle
  /\ PadIdle
  /\ RenderIdle

Next ==
  /\ \/ ValidateArguments
     \/ CheckSvgExists
     \/ LoadFocusAreas
     \/ ParseSvg
     \/ ProcessFocusArea
     \/ ProcessNoFocusArea
     \/ ProcessEntityGroup
     \/ ComposeOutput
     \/ PrintOutput
  /\ UNCHANGED <<padVars, renderVars>>

Spec == Init /\ [][Next]_vars

(***************************************************************************)
(* SpecTwice: the invocation, and then once more the same invocation but   *)
(* for the verbose flag: same arguments, same files, --verbose the other   *)
(* way round.                                                              *)
(***************************************************************************)
\* the process has ended; a new one runs the same command line with
\* --verbose given if it was not, left out if it was
RunAgain ==
  /\ pc = "exited" /\ ~earlier.ran
  /\ earlier' = [ran |-> TRUE, verbose |-> options.verbose, stdout |-> stdout,
                 stderr |-> stderr, exitCode |-> exitCode]
  /\ options' = [options EXCEPT !.verbose = ~options.verbose]
  /\ pc' = "start"
  /\ focusAreas' = <<>>
  /\ focusAreaNames' = <<>>
  /\ stdout' = <<>>
  /\ stderr' = <<>>
  /\ exitCode' = Running
  /\ io' = <<>>
  /\ results' = <<>>
  /\ splineConfig' = [type |-> "catmull-rom"]
  /\ svgContent' = Undefined
  /\ output' = NotCalled
  /\ UNCHANGED <<entityNames, files>>

NextTwice ==
  /\ \/ ValidateArguments
     \/ CheckSvgExists
     \/ LoadFocusAreas
     \/ ParseSvg
     \/ ProcessFocusArea
     \/ ProcessNoFocusArea
     \/ ProcessEntityGroup
     \/ ComposeOutput
     \/ PrintOutput
     \/ RunAgain
  /\ UNCHANGED <<padVars, renderVars>>

SpecTwice == Init /\ [][NextTwice]_vars

(***************************************************************************)
(* Path descriptions as the strings of characters they are, and the        *)
(* regular expression -?\d+\.?\d* on them.                                 *)
(***************************************************************************)
DecimalDigits == <<"0", "1", "2", "3", "4", "5", "6", "7", "8", "9">>

RECURSIVE Decimal(_)
\* the digits of a natural number
Decimal(n) ==
  IF n < 10 THEN <<DecimalDigits[n + 1]>>
  ELSE Decimal(n \div 10) \o <<DecimalDigits[(n % 10) + 1]>>

\* the characters of a numeric token: what toFixed(2) wrote, or the number
\* as the path description has it (whole, or with one decimal)
NumberText(t) ==
  IF t.kind = "fixed2"
  THEN (IF t.c = "-" THEN <<"-">> ELSE <<>>)
         \o Decimal(Abs(t.v) \div 100)
         \o <<".", DecimalDigits[((Abs(t.v) % 100) \div 10) + 1],
                   DecimalDigits[(Abs(t.v) % 10) + 1]>>
  ELSE (IF t.v < 0 THEN <<"-">> ELSE <<>>)
         \o Decimal(Abs(t.v) \div Fix)
         \o (IF Abs(t.v) % Fix = 0 THEN <<>>
             ELSE <<".", DecimalDigits[RoundDiv(10 * (Abs(t.v) % Fix), Fix) + 1]>>)

\* the string that a path description is
PathText(pathData) ==
  Concat([n \in 1..Len(pathData) |->
            IF IsNumber(pathData[n]) THEN NumberText(pathData[n])
            ELSE <<pathData[n].c>>])

\* \d
IsDigit(c) == \E n \in 1..10 : c = DecimalDigits[n]

RECURSIVE DigitRun(_, _)
\* \d* from position p on: how many characters it takes
DigitRun(text, p) ==
  IF p <= Len(text) /\ IsDigit(text[p]) THEN 1 + DigitRun(text, p + 1) ELSE 0

\* the length of the match of -?\d+\.?\d* that begins at position p; 0 when
\* none does
NumberMatch(text, p) ==
  LET sign == IF text[p] = "-" THEN 1 ELSE 0
      whole == DigitRun(text, p + sign)
      point == IF p + sign + whole <= Len(text) /\ text[p + sign + whole] = "."
               THEN 1 ELSE 0
      fraction == DigitRun(text, p + sign + whole + point)
  IN  IF whole = 0 THEN 0 ELSE sign + whole + point + fraction

RECURSIVE Lexemes(_, _)
\* the matches of /-?\d+\.?\d*/g in text from position p on, left to right,
\* and the characters between them
Lexemes(text, p) ==
  IF p > Len(text) THEN <<>>
  ELSE LET length == NumberMatch(text, p)
       IN  IF length = 0
           THEN <<[numeric |-> FALSE, text |-> <<text[p]>>]>> \o Lexemes(text, p + 1)
           ELSE <<[numeric |-> TRUE, text |-> SubSeq(text, p, p + length - 1)]>>
                  \o Lexemes(text, p + length)

\* the numeric tokens of the path description are the matches in its string
WellLexed(pathData) ==
  Lexemes(PathText(pathData), 1) =
    [n \in 1..Len(pathData) |->
       IF IsNumber(pathData[n])
       THEN [numeric |-> TRUE, text |-> NumberText(pathData[n])]
       ELSE [numeric |-> FALSE, text |-> <<pathData[n].c>>]]

(***************************************************************************)
(* SpecJitter: one call of generateWatercolorLayers on any path            *)
(* description of up to MaxTokens tokens.                                  *)
(***************************************************************************)
MaxTokens == 4

PathTokens == {Cmd("M"), Cmd(","), Num(Fix), Num(0 - Fix), Num((3 * Fix) \div 2)}

JitterPaths == {pathData \in SeqsUpTo(PathTokens, MaxTokens) : WellLexed(pathData)}

JitterCall ==
  /\ ~lastCall.called
  /\ \E pathData \in JitterPaths, layers \in 0..MaxLayers :
       lastCall' = Render(pathData, <<"#", "E", "5", "F", "3", "F", "F">>, layers)
  /\ UNCHANGED <<firstCall, previousCall>>

JitterNext == JitterCall /\ UNCHANGED <<padVars, composeVars, runVars>>

SpecJitter == RenderInit /\ [][JitterNext]_vars

(***************************************************************************)
(* SpecLoad: the step of run that loads the focus-areas file, on files     *)
(* whose records have each validated field present, absent, empty or of    *)
(* another type.                                                           *)
(***************************************************************************)
\* a record that holds a value of another type in the field: a number where
\* a string is required, a string where the list is
Mistyped(area, field) ==
  [area EXCEPT !.type[field] = IF field = "areas" THEN "string" ELSE "number"]

FieldStates == {"present", "absent", "empty", "mistyped"}

\* the record with one field put in the given state; an empty list of areas
\* is a list
InState(area, field, state) ==
  CASE state = "present" -> area
    [] state = "absent" -> Without(area, field)
    [] state = "empty" ->
         (IF field = "areas" THEN [area EXCEPT !.areas = <<>>] ELSE Emptied(area, field))
    [] state = "mistyped" -> Mistyped(area, field)

YamlRecords ==
  {InState(InState(InState(InState(Carlos, "name", n), "label", l), "color", c),
           "areas", a) : n \in FieldStates, l \in FieldStates,
                         c \in FieldStates, a \in FieldStates}

\* the two records of the documented example, which have no label
DocumentedExample == <<Without(Carlos, "label"), Without(Luca, "label")>>

YamlFiles ==
  {[exists |-> TRUE, kind |-> k, content |-> <<>>] : k \in {"malformed", "scalar"}}
    \cup {YamlList(<<>>), YamlList(<<Carlos, Luca>>), YamlList(<<Luca, Carlos>>),
          YamlList(DocumentedExample)}
    \cup {YamlList(<<r>>) : r \in YamlRecords}
    \cup {YamlList(<<Luca, r>>) : r \in YamlRecords}
    \cup {YamlList(<<r, Luca>>) : r \in YamlRecords}

\* run has checked its arguments and found the document (index.ts 192-209)
LoadInit ==
  /\ pc = "areas"
  /\ entityNames \in {<<>>, <<"Luca">>}
  /\ options \in [areas : BOOLEAN, curveType : {"catmull-rom"}, verbose : BOOLEAN,
                   padding : {0}]
  /\ files \in [svg : {[exists |-> TRUE, parses |-> TRUE,
                         text |-> <<Ch("<svg"), Ch(">"), Ch("x")>>]},
                areas : IF options.areas THEN YamlFiles ELSE {NoAreasFile}]
  /\ ~options.areas => entityNames # <<>>
  /\ focusAreas = <<>>
  /\ focusAreaNames = <<>>
  /\ stdout = <<>>
  /\ stderr = <<>>
  /\ exitCode = Running
  /\ io = <<"existsSync(svg)">>
  /\ earlier = NoEarlier
  /\ ComposeIdle
  /\ PadIdle
  /\ RenderIdle

LoadNext == LoadFocusAreas /\ UNCHANGED <<padVars, renderVars>>

SpecLoad == LoadInit /\ [][LoadNext]_vars

PadInit ==
  /\ points \in PointLists
  /\ before = points
  /\ padded = points
  /\ applied = <<>>
  /\ ComposeIdle
  /\ RunIdle
  /\ RenderIdle

\* one call padded = HullPadding.addPadding(padded, padding)
AddPadding ==
  /\ Len(applied) < MaxCalls
  /\ \E padding \in Paddings :
       /\ before' = padded
       /\ padded' = addPadding(padded, padding)
       /\ applied' = Append(applied, padding)
  /\ UNCHANGED <<points, composeVars, runVars, renderVars>>

PadNext == AddPadding

SpecPadding == PadInit /\ [][PadNext]_vars

CallInit == ComposeInit /\ PadIdle /\ RunIdle /\ RenderIdle

CallNext == GenerateSVGOutput /\ UNCHANGED <<padVars, runVars, renderVars>>

SpecCompose == CallInit /\ [][CallNext]_vars

(***************************************************************************)
(* What the padding claims speak of, stated apart from the code above.     *)
(***************************************************************************)
Tol == 20

Called == applied # <<>>

\* the padding argument of the latest call
LastPadding == applied[Len(applied)]

RECURSIVE Total(_, _)
\* f[1] + ... + f[n]
Total(f, n) == IF n = 0 THEN 0 ELSE f[n] + Total(f, n - 1)

\* c is the arithmetic mean of the coordinates of ps, to the nearest unit
IsMean(c, ps) ==
  /\ ps # <<>>
  /\ 2 * Abs((Len(ps) * c.x) - Total([i \in 1..Len(ps) |-> ps[i].x], Len(ps))) <= Len(ps)
  /\ 2 * Abs((Len(ps) * c.y) - Total([i \in 1..Len(ps) |-> ps[i].y], Len(ps))) <= Len(ps)

\* the arithmetic-mean centroid of ps
Mean(ps) ==
  Point(RoundDiv(Total([i \in 1..Len(ps) |-> ps[i].x], Len(ps)), Len(ps)),
        RoundDiv(Total([i \in 1..Len(ps) |-> ps[i].y], Len(ps)), Len(ps)))

Dist(p, q) == Hypot(p.x - q.x, p.y - q.y)

FinitePoint(p) == IsFinite(p.x) /\ IsFinite(p.y)

\* p and q are the same point up to Tol units
Close(p, q) ==
  /\ FinitePoint(p) /\ FinitePoint(q)
  /\ Abs(p.x - q.x) <= Tol /\ Abs(p.y - q.y) <= Tol

CloseLists(ps, qs) ==
  /\ Len(ps) = Len(qs)
  /\ \A i \in 1..Len(ps) : Close(ps[i], qs[i])

\* q lies on the ray from c through p (p # c), up to Tol units off the line
OnRay(c, p, q) ==
  LET dx == p.x - c.x
      dy == p.y - c.y
      ex == q.x - c.x
      ey == q.y - c.y
  IN  /\ (dx * ex) + (dy * ey) > 0
      /\ Abs((dx * ey) - (dy * ex)) <= Tol * Dist(p, c)

\* C1: addPadding(points, distance) with distance <= 0 returns the input
\* point sequence unchanged, for any point sequence, the empty one included.
C1_NonPositivePaddingIsIdentity ==
  (Called /\ LastPadding <= 0) => padded = before

C1_Witness ==
  /\ Called /\ LastPadding < 0
  /\ Len(before) = 3 /\ before[1] # before[2]
  /\ padded = before

\* C2: for distance > 0 every input point that is not at the arithmetic-mean
\* centroid moves to the point on the ray from the centroid through it whose
\* distance from the centroid is originalDistance + distance (up to Tol).
C2_MovedAlongRayByPadding ==
  (Called /\ LastPadding > 0) =>
    /\ Len(padded) = Len(before)
    /\ LET c == Mean(before)
       IN  \A i \in 1..Len(before) :
             before[i] # c =>
               /\ FinitePoint(padded[i])
               /\ OnRay(c, before[i], padded[i])
               /\ Abs(Dist(padded[i], c) - (Dist(before[i], c) + LastPadding)) <= Tol

C2_Witness ==
  /\ Called /\ LastPadding > 0
  /\ Len(before) = 3
  /\ \E i \in 1..3 : before[i] # Mean(before) /\ padded[i] # before[i]

\* the square of side 10 centred at the origin
Square10 == Rect(0, 0, 5, 5)

\* ps is a square of the given side (up to Tol) whose vertices are symmetric
\* about the origin
IsSquareAboutOrigin(ps, side) ==
  /\ Len(ps) = 4
  /\ \A i \in 1..4 : FinitePoint(ps[i])
  /\ \A i \in 1..4 : Abs(Dist(ps[i], ps[(i % 4) + 1]) - side) <= Tol
  /\ Abs(Dist(ps[1], ps[3]) - Dist(ps[2], ps[4])) <= Tol
  /\ \A i \in 1..4 : \E j \in 1..4 : ps[j] = Point(0 - ps[i].x, 0 - ps[i].y)

PaddedSquare10 == points = Square10 /\ applied = <<5 * Fix>>

\* C3 as stated: addPadding on a square of side 10 centred at the origin with
\* padding 5 yields a square of side about 20, symmetric about the origin.
C3_AsStated ==
  PaddedSquare10 => IsSquareAboutOrigin(padded, 20 * Fix)

\* C3, amended: the result is a square of side about 10 + 5 * sqrt(2), that is
\* 17.07 (every vertex moves 5 units along its diagonal), still symmetric
\* about the origin.
C3_PaddedSquareSide ==
  PaddedSquare10 =>
    IsSquareAboutOrigin(padded, (10 * Fix) + Hypot(5 * Fix, 5 * Fix))

C3_Witness ==
  PaddedSquare10 /\ padded # points /\ Len(padded) = 4

\* every point of ps is as far from the centroid of ps as every other
Equidistant(ps) ==
  \A i, j \in 1..Len(ps) :
    Abs(Dist(ps[i], Mean(ps)) - Dist(ps[j], Mean(ps))) <= 1

TwoCalls == Len(applied) = 2

\* C4 as stated: on points all equidistant from their centroid, addPadding
\* with d1 and then with d2 gives the points of one addPadding with d1 + d2,
\* for any d1 and d2.
C4_AsStated ==
  (TwoCalls /\ Equidistant(points)) =>
    CloseLists(padded, addPadding(points, applied[1] + applied[2]))

SameSign(d1, d2) == (d1 >= 0 /\ d2 >= 0) \/ (d1 <= 0 /\ d2 <= 0)

\* C4, amended: the same, for d1 and d2 that are both >= 0 or both <= 0, and
\* up to rounding (Tol units).
C4_ComposesForSameSign ==
  (TwoCalls /\ Equidistant(points) /\ SameSign(applied[1], applied[2])) =>
    CloseLists(padded, addPadding(points, applied[1] + applied[2]))

C4_Witness ==
  /\ TwoCalls /\ Equidistant(points)
  /\ applied[1] > 0 /\ applied[2] > 0 /\ applied[1] # applied[2]
  /\ Len(points) = 4 /\ padded # before /\ before # points

\* C5: for distance > 0 every input point that coincides with the centroid is
\* returned unmoved, and no such point gets a non-finite coordinate.
C5_CentroidPointUnmoved ==
  (Called /\ LastPadding > 0) =>
    /\ Len(padded) = Len(before)
    /\ \A i \in 1..Len(before) :
         before[i] = Mean(before) =>
           (padded[i] = before[i] /\ FinitePoint(padded[i]))

C5_Witness ==
  /\ Called /\ LastPadding > 0
  /\ Len(before) = 3
  /\ \E i, j \in 1..3 :
       /\ before[i] = Mean(before) /\ padded[i] = before[i]
       /\ before[j] # Mean(before) /\ padded[j] # before[j]

(***************************************************************************)
(* What the composition claims speak of, stated apart from the code above. *)
(***************************************************************************)
\* generateSVGOutput was called and returned a string
Composed == output.error = ""

WithBase == svgContent.given /\ svgContent.text # <<>>

Least(S) == CHOOSE i \in S : \A j \in S : i <= j

\* where the first opening <svg ...> tag of text ends; 0 when it has none
FirstTagEnd(text) ==
  LET opens == {i \in 1..Len(text) : text[i].name = "<svg"}
  IN  IF opens = {} THEN 0
      ELSE LET closes == {j \in (Least(opens) + 1)..Len(text) : text[j].name = ">"}
           IN  IF closes = {} THEN 0 ELSE Least(closes)

IsLineBreak(t) == t.kind = "char" /\ t.name = "\n"

NotLineBreak(t) == ~IsLineBreak(t)

\* a piece of the base document
IsBase(t) == t.kind = "char" /\ t.name # "\n"

IsLayerGroupPart(t) == t.kind \in {"aOpen", "gOpen", "path", "gClose", "aClose"}

IsGroupOpen(t) == t.kind = "gOpen"

IsGroupClose(t) == t.kind = "gClose"

IsPath(t) == t.kind = "path"

IsLabel(t) == t.kind = "text"

IsLinkOpen(t) == t.kind = "aOpen"

NamesOf(ts) == [i \in 1..Len(ts) |-> ts[i].name]

\* the output without its line breaks
Flat == SelectSeq(output.text, NotLineBreak)

\* the k-th smallest member of a set of numbers
Nth(S, k) == CHOOSE i \in S : Cardinality({j \in S : j <= i}) = k

\* C8: with a base document, the generated content is inserted directly after
\* the first opening <svg ...> tag: the layer groups of all results in results
\* order, then the text labels of all results in results order, then the rest
\* of the base document.
C8_InsertedAfterOpeningTag ==
  (Composed /\ WithBase) =>
    LET doc == svgContent.text
        out == output.text
        k == FirstTagEnd(doc)
        m == Len(out) - (Len(doc) - k)
        block == SubSeq(out, k + 1, m)
        groups == {i \in 1..Len(block) : IsLayerGroupPart(block[i])}
        labels == {i \in 1..Len(block) : IsLabel(block[i])}
    IN  /\ k > 0 /\ m >= k
        /\ SubSeq(out, 1, k) = SubSeq(doc, 1, k)
        /\ SubSeq(out, m + 1, Len(out)) = SubSeq(doc, k + 1, Len(doc))
        /\ \A i \in 1..Len(block) : ~IsBase(block[i])
        /\ \A i \in groups, j \in labels : i < j
        /\ NamesOf(SelectSeq(block, IsGroupOpen)) = NamesOf(results)
        /\ NamesOf(SelectSeq(block, IsGroupClose)) = NamesOf(results)
        /\ NamesOf(SelectSeq(block, IsLabel)) = NamesOf(results)
        /\ Len(SelectSeq(block, IsPath)) = LayerCount * Len(results)
        /\ \A i \in 1..Len(block) :
             IsPath(block[i]) =>
               \E g \in 1..(i - 1) :
                 /\ IsGroupOpen(block[g]) /\ block[g].name = block[i].name
                 /\ \A j \in g..i : ~IsGroupClose(block[j])

C8_Witness ==
  /\ Composed /\ WithBase /\ Len(results) = 2
  /\ results[1].name # results[2].name
  /\ FirstTagEnd(svgContent.text) < Len(svgContent.text)
  /\ Len(output.text) > Len(svgContent.text)

\* C9 as stated: with a base document every text label comes later in
\* document order than every generated layer group and than every
\* pre-existing element of the base document.
C9_AsStated ==
  (Composed /\ WithBase) =>
    \A i, j \in 1..Len(output.text) :
      (IsLabel(output.text[i])
         /\ (IsLayerGroupPart(output.text[j]) \/ IsBase(output.text[j]))) => j < i

\* C9, amended: every text label comes later than every generated layer group
\* and than the opening <svg ...> tag, and earlier than everything of the base
\* document that follows that tag.
C9_LabelsAboveLayersBelowBase ==
  (Composed /\ WithBase) =>
    LET out == output.text
        k == FirstTagEnd(svgContent.text)
    IN  \A i, j \in 1..Len(out) :
          IsLabel(out[i]) =>
            /\ IsLayerGroupPart(out[j]) => j < i
            /\ IsBase(out[j]) => (j < i <=> j <= k)

C9_Witness ==
  /\ Composed /\ WithBase /\ Len(results) = 2
  /\ \E i, j \in 1..Len(output.text) :
       IsLabel(output.text[i]) /\ IsBase(output.text[j]) /\ i < j

\* C10: every result that has a hyperlink has its layer group enclosed in a
\* link wrapper carrying that hyperlink, and no link wrapper is emitted for a
\* result without one.
C10_AsStated ==
  Composed =>
    LET opens == {i \in 1..Len(Flat) : IsGroupOpen(Flat[i])}
        closes == {i \in 1..Len(Flat) : IsGroupClose(Flat[i])}
    IN  /\ Cardinality(opens) = Len(results)
        /\ Cardinality(closes) = Len(results)
        /\ \A r \in 1..Len(results) :
             LET g == Nth(opens, r)
                 e == Nth(closes, r)
                 wrapped ==
                   /\ g > 1 /\ Flat[g - 1].kind = "aOpen"
                   /\ Flat[g - 1].url = results[r].url
                   /\ e < Len(Flat) /\ Flat[e + 1].kind = "aClose"
             IN  IF results[r].url # "" THEN wrapped
                 ELSE ~(g > 1 /\ Flat[g - 1].kind = "aOpen")
        /\ Len(SelectSeq(Flat, IsLinkOpen))
             = Cardinality({r \in 1..Len(results) : results[r].url # ""})

\* generateSVGOutput was called, and returned or threw
Invoked == output # NotCalled

InvalidDocument == output.error = "Invalid SVG: missing opening <svg> tag"

\* C11 as stated: with a base document supplied, the call fails with the
\* invalid-document error and returns nothing exactly when the document has
\* no opening <svg ...> tag.
C11_AsStated ==
  (Invoked /\ svgContent.given) =>
    /\ InvalidDocument <=> FirstTagEnd(svgContent.text) = 0
    /\ InvalidDocument => output.text = <<>>

\* C11, amended: with a non-empty base document supplied, the call fails with
\* the invalid-document error and returns nothing exactly when the document
\* has no opening <svg ...> tag; an empty document counts as none supplied.
C11_NonEmptyDocumentNeedsOpeningTag ==
  /\ (Invoked /\ WithBase) =>
       /\ InvalidDocument <=> FirstTagEnd(svgContent.text) = 0
       /\ InvalidDocument => output.text = <<>>
  /\ (Invoked /\ ~WithBase) => ~InvalidDocument

\* a document with text and a ">" but no opening tag was rejected
C11_Witness ==
  /\ Invoked /\ WithBase /\ InvalidDocument
  /\ Len(results) >= 1
  /\ \E i \in 1..Len(svgContent.text) : svgContent.text[i].name = ">"

\* the length of one result's fragment: group open, layers, group close, label
FragmentLen == LayerCount + 3

DistinctNames ==
  \A i, j \in 1..Len(results) : results[i].name = results[j].name => i = j

\* where the generated elements of a kind for a name stand in the output
Generated(kind, name) ==
  {i \in 1..Len(Flat) : Flat[i].kind = kind /\ Flat[i].name = name}

\* C13: for results with pairwise distinct names the output holds exactly one
\* layer group per result, made of filled paths for that name, and exactly
\* one text label per result, whose text is exactly the name of its group.
C13_OneGroupAndOneLabelPerName ==
  (Composed /\ DistinctNames) =>
    /\ Len(SelectSeq(Flat, IsGroupOpen)) = Len(results)
    /\ Len(SelectSeq(Flat, IsGroupClose)) = Len(results)
    /\ Len(SelectSeq(Flat, IsLabel)) = Len(results)
    /\ \A r \in 1..Len(results) :
         LET name == results[r].name
         IN  /\ Cardinality(Generated("gOpen", name)) = 1
             /\ Cardinality(Generated("gClose", name)) = 1
             /\ Cardinality(Generated("text", name)) = 1
             /\ \A i \in Generated("text", name) : Flat[i].text = name
             /\ Generated("path", name) # {}
             /\ \A i \in Generated("path", name) :
                  /\ Flat[i].fill # <<>>
                  /\ \A g \in Generated("gOpen", name) : g < i
                  /\ \A e \in Generated("gClose", name) : i < e

\* two groups with different names were composed into a base document
C13_Witness ==
  /\ Composed /\ WithBase /\ DistinctNames /\ Len(results) = 2
  /\ \E i \in 1..Len(Flat) : IsLabel(Flat[i]) /\ Flat[i].text = results[2].name

\* a, in hundredths, is the mean of the n numbers (in units) that sum to
\* total, to the two decimals a label position is written with
IsMeanToTwoDecimals(a, total, n) ==
  IsFinite(a) /\ Abs((a * Fix * n) - (100 * total)) <= Fix * n

Rendered == lastCall.called

\* the layers the latest call returned; layer i is Layers[i + 1]
Layers == lastCall.returned

HasCoordinates(pathData) ==
  Cardinality({n \in 1..Len(pathData) : pathData[n].kind # "cmd"}) >= 2

FlooredOpacity(i) == IF 150 - (20 * i) > 50 THEN 150 - (20 * i) ELSE 50

Paired(pathData) ==
  LET count == Cardinality({n \in 1..Len(pathData) : pathData[n].kind # "cmd"})
  IN  {n \in 1..Len(pathData) :
         /\ pathData[n].kind # "cmd"
         /\ Cardinality({m \in 1..n : pathData[m].kind # "cmd"}) <= 2 * (count \div 2)}

\* min(8, 2 * i)
JitterMagnitude(i) == IF 2 * i < 8 THEN 2 * i ELSE 8

\* how far the token written with two decimals (hundredths) is from the
\* token as given (units), in 1 / (100 * Fix)
Displacement(written, given) == Abs((written.v * Fix) - (100 * given.v))

\* C17: the jitter magnitude of layer i >= 1 is min(8, 2 i): at most 8, never
\* less than that of the layer before; every coordinate of layer i lies
\* within half that magnitude of the coordinate it comes from, before it is
\* rounded to two decimals (half a hundredth is allowed for the rounding).
C17_JitterBounded ==
  /\ \A i \in 1..MaxLayers :
       /\ maxOffset(i) = JitterMagnitude(i)
       /\ maxOffset(i) <= 8
       /\ i > 1 => maxOffset(i - 1) <= maxOffset(i)
  /\ Rendered =>
       \A n \in 2..Len(Layers) :
         /\ Len(Layers[n].pathData) = Len(lastCall.pathData)
         /\ \A k \in Paired(lastCall.pathData) :
              /\ Layers[n].pathData[k].kind = "fixed2"
              /\ 2 * Displacement(Layers[n].pathData[k], lastCall.pathData[k])
                   <= (100 * Fix * JitterMagnitude(n - 1)) + Fix

\* a coordinate of a capped layer was moved by more than 3, which no layer
\* before the fourth can do
C17_Witness ==
  /\ Rendered /\ Len(Layers) >= 6
  /\ \E n \in 6..Len(Layers) : \E k \in Paired(lastCall.pathData) :
       Displacement(Layers[n].pathData[k], lastCall.pathData[k]) > 300 * Fix

SameArguments(a, b) ==
  /\ a.pathData = b.pathData
  /\ a.baseColor = b.baseColor
  /\ a.layers = b.layers

Exited == pc = "exited"

\* the lines the catch block can write to the diagnostic stream
ErrorLines ==
  {"Error: " \o m :
     m \in {"Either entity names or --areas file must be provided",
            "Invalid curve type", "SVG file not found",
            "Focus areas file not found", "Failed to parse focus areas file",
            "Failed to parse SVG", "Insufficient points for hull",
            "Focus area not found", "Invalid SVG: missing opening <svg> tag"}}

ErrorReported == stderr # <<>> /\ stderr[Len(stderr)] \in ErrorLines

NoErrorReported == \A i \in 1..Len(stderr) : stderr[i] \notin ErrorLines

\* the groups the invocation asks for: each named focus area, or else the
\* one group of all the entity names
RequestedGroups ==
  IF options.areas
  THEN (IF Len(entityNames) = 0
        THEN listAvailableFocusAreas(files.areas.content) ELSE entityNames)
  ELSE <<DisplayName(entityNames)>>

\* every requested group has its padded hull among the results, in order
AllGroupsProcessed ==
  /\ Len(results) = Len(RequestedGroups)
  /\ \A i \in 1..Len(results) :
       /\ results[i].name = RequestedGroups[i]
       /\ Len(results[i].points) >= 3

\* the invocation ended well: everything processed and composed, the
\* composed text is the one thing on standard output, status 0
Succeeded ==
  /\ exitCode = 0
  /\ AllGroupsProcessed
  /\ output.error = ""
  /\ stdout = <<output.text>>
  /\ NoErrorReported

\* the invocation ended badly: an error line closes the diagnostic stream,
\* the status is not 0, standard output is empty
Failed ==
  /\ exitCode # 0 /\ exitCode # Running
  /\ ErrorReported
  /\ stdout = <<>>

\* C6: standard output is written only once every requested group has been
\* resolved, hulled, padded and composed without error, and then the exit
\* status is 0; an invocation that ends any other way has written an error
\* line to the diagnostic stream, has a non-zero exit status and has written
\* nothing to standard output, whatever groups it had already processed.
C6_NoPartialOutput ==
  /\ ~Exited => stdout = <<>> /\ exitCode = Running
  /\ Exited => Succeeded \/ Failed
  /\ stdout # <<>> => Exited /\ Succeeded

\* a second group failed after the first one had been processed
C6_Witness ==
  /\ Exited /\ Failed
  /\ Len(results) >= 1
  /\ Len(results) < Len(RequestedGroups)

\* neither names nor a focus-area file, or an unknown curve type
InvalidCombination ==
  \/ Len(entityNames) = 0 /\ ~options.areas
  \/ options.curveType \notin
       {"linear", "catmull-rom", "cardinal", "basis", "basis-closed"}

Occurred(event) == \E i \in 1..Len(io) : io[i] = event

\* C7: an invocation with neither entity names nor an --areas file, or with
\* an unknown curve type, never parses the document and never reads the
\* focus-area file: its only step is the one that fails it.
C7_InvalidFailsBeforeParsing ==
  InvalidCombination =>
    /\ ~Occurred("SVGParser(svg)")
    /\ ~Occurred("readFileSync(areas)")
    /\ ~Occurred("readFileSync(svg)")
    /\ pc \in {"start", "exited"}
    /\ Exited => Failed

\* an unknown curve type failed the invocation although both files were
\* there to be read
C7_Witness ==
  /\ Exited /\ Failed
  /\ options.curveType = "bogus"
  /\ options.areas /\ files.svg.parses
  /\ files.areas.exists /\ files.areas.kind = "array" /\ Len(files.areas.content) = 2
  /\ Len(entityNames) > 0
  /\ io = <<>>

(***************************************************************************)
(* What the focus-area claims speak of, stated apart from the code above.  *)
(***************************************************************************)
LastError == IF stderr = <<>> THEN "" ELSE stderr[Len(stderr)]

\* the document was parsed, so the loop over the requested groups began
LoopBegan == Occurred("SVGParser(svg)") /\ files.svg.parses

\* the focus area of the configuration file that a requested name stands for
Configured(name) ==
  LET found == {k \in 1..Len(files.areas.content) : files.areas.content[k].name = name}
  IN  files.areas.content[Least(found)]

IsConfigured(name) == \E k \in 1..Len(files.areas.content) : files.areas.content[k].name = name

ListsMissingGroup(area) == \E k \in 1..Len(area.areas) : area.areas[k] \notin EntityGroups

\* how many points the groups of the area that the document has hold
PresentPoints(area) ==
  Total([k \in 1..Len(area.areas) |->
           IF area.areas[k] \in EntityGroups THEN Len(GroupPoints(area.areas[k])) ELSE 0],
        Len(area.areas))

\* the requested focus areas that list a missing group and that the loop has
\* processed, or was processing when the invocation ended
ReachedWithMissingGroup ==
  {i \in 1..Len(RequestedGroups) :
     /\ options.areas /\ LoopBegan
     /\ i <= Len(results) \/ (Exited /\ i = Len(results) + 1 /\ output = NotCalled)
     /\ IsConfigured(RequestedGroups[i])
     /\ ListsMissingGroup(Configured(RequestedGroups[i]))}

Reached ==
  {i \in 1..Len(RequestedGroups) :
     /\ options.areas /\ LoopBegan
     /\ i <= Len(results) \/ (Exited /\ i = Len(results) + 1 /\ output = NotCalled)}

\* C20: a requested name that matches no loaded focus area fails the lookup
\* with a not-found error, which ends the invocation with nothing on
\* standard output; a name that matches is resolved to the entity list and
\* the color of a focus area of that name.
C20_UnknownFocusAreaNotFound ==
  \A i \in Reached :
    IF IsConfigured(RequestedGroups[i])
    THEN IF i <= Len(results)
         THEN /\ results[i].name = RequestedGroups[i]
              /\ results[i].color = Configured(RequestedGroups[i]).color
              /\ Len(results[i].points) = PresentPoints(Configured(RequestedGroups[i]))
         ELSE LastError # "Error: Focus area not found"
    ELSE /\ Len(results) = i - 1
         /\ Exited /\ Failed /\ stdout = <<>>
         /\ LastError = "Error: Focus area not found"

\* the second requested name was not in the configuration that the first
\* was resolved from
C20_Witness ==
  /\ Exited /\ Failed
  /\ Len(results) = 1 /\ Len(RequestedGroups) = 2
  /\ IsConfigured(RequestedGroups[1])
  /\ ~IsConfigured(RequestedGroups[2])
  /\ Reached = {1, 2}

\* the six digits of a 6-digit hex color, with or without its "#"; <<>> for
\* any other color
SixDigits(color) ==
  LET digits == IF color # <<>> /\ color[1] = "#" THEN SubSeq(color, 2, Len(color))
                ELSE color
  IN  IF /\ Len(digits) = 6
         /\ \A k \in 1..6 : \E n \in 1..16 :
              digits[k] = HexDigits[n] \/ digits[k] = UpperHexDigits[n]
      THEN digits ELSE <<>>

\* the value 0..255 of the k-th channel (1 red, 2 green, 3 blue) of six digits
Channel(digits, k) ==
  LET value(c) == CHOOSE v \in 0..15 : c = HexDigits[v + 1] \/ c = UpperHexDigits[v + 1]
  IN  (16 * value(digits[(2 * k) - 1])) + value(digits[2 * k])

\* #rrggbb in lower-case digits
IsLowerHexColor(color) ==
  /\ Len(color) = 7 /\ color[1] = "#"
  /\ \A k \in 2..7 : \E n \in 1..16 : color[k] = HexDigits[n]

\* C28: the color of every layer is well formed. When the base color is a
\* 6-digit hex color, every layer i >= 1 has a color #rrggbb of which each
\* channel is a whole number in 0..255 within 2.5 * i, and the half that
\* rounding adds, of the channel of the base color; for any other base color
\* (a color name, a 3-digit hex color, an rgb() form) every layer has the
\* base color string itself.
C28_LayerColorsWellFormed ==
  Rendered =>
    \A n \in 2..Len(Layers) :
      LET i == n - 1
          base == SixDigits(lastCall.baseColor)
          color == Layers[n].color
      IN  IF base # <<>>
          THEN /\ IsLowerHexColor(color)
               /\ \A k \in 1..3 :
                    /\ Channel(SixDigits(color), k) \in 0..255
                    /\ 2 * Abs(Channel(SixDigits(color), k) - Channel(base, k)) <= (5 * i) + 1
          ELSE color = lastCall.baseColor

\* six layers of "00ff01": the last has a channel off its base value, and
\* none has left 0..255 although red is 0 and green 255 in the base color
C28_Witness ==
  /\ Rendered /\ Len(Layers) = 6
  /\ lastCall.baseColor = <<"0", "0", "f", "f", "0", "1">>
  /\ \E k \in 1..3 :
       Channel(SixDigits(Layers[6].color), k) # Channel(SixDigits(lastCall.baseColor), k)
  /\ \A n \in 2..6 : IsLowerHexColor(Layers[n].color)

\* layers of the 3-digit hex color "#0f8" all have that very string
C28_WitnessOther ==
  /\ Rendered /\ Len(Layers) = 3
  /\ lastCall.baseColor = <<"#", "0", "f", "8">>
  /\ Layers[3].color = <<"#", "0", "f", "8">>

\* token by token, the jittered path is the input path with the numbers of
\* its complete pairs replaced by jittered values of layer i, written with
\* two decimals, and nothing else touched
StructureKept(given, jittered, i) ==
  /\ Len(jittered) = Len(given)
  /\ \A k \in 1..Len(given) :
       IF k \in Paired(given)
       THEN /\ jittered[k].kind = "fixed2"
            /\ 2 * Displacement(jittered[k], given[k])
                 <= (100 * Fix * JitterMagnitude(i)) + Fix
       ELSE jittered[k] = given[k]
  /\ Paired(given) = {} => jittered = given

\* the non-numeric characters among lexemes, in order
NonNumeric(lexemes) == SelectSeq(lexemes, LAMBDA l : ~l.numeric)

\* the numeric tokens among lexemes, in order
Numeric(lexemes) == SelectSeq(lexemes, LAMBDA l : l.numeric)

\* read as a string, the jittered path has the non-numeric characters of the
\* input path, and one numeric token for each of its numeric tokens: the
\* number that was written in its place
SameStructure(given, jittered) ==
  LET lexedGiven == Lexemes(PathText(given), 1)
      lexedJittered == Lexemes(PathText(jittered), 1)
      written == Numbers(jittered)
  IN  /\ NonNumeric(lexedJittered) = NonNumeric(lexedGiven)
      /\ Len(Numeric(lexedJittered)) = Len(Numeric(lexedGiven))
      /\ Len(Numeric(lexedJittered)) = Len(written)
      /\ \A k \in 1..Len(written) : Numeric(lexedJittered)[k].text = NumberText(written[k])

\* a number stands right after another number, with no character between
RunTogether(pathData) ==
  {k \in 2..Len(pathData) : IsNumber(pathData[k - 1]) /\ IsNumber(pathData[k])}

Loaded == options.areas /\ Occurred("readFileSync(areas)")

\* the record has a string of at least one character in the field
HasNonEmptyString(area, field) ==
  /\ area.type[field] = "string"
  /\ IF field = "color" THEN Len(area.color) > 0 ELSE area[field] # ""

HasAllFour(area) ==
  /\ HasNonEmptyString(area, "name")
  /\ HasNonEmptyString(area, "label")
  /\ HasNonEmptyString(area, "color")
  /\ area.type.areas = "array"

ParseErrorReported ==
  /\ Exited /\ Failed
  /\ LastError = "Error: Failed to parse focus areas file"
  /\ focusAreas = <<>>

InDocumentedFormat ==
  /\ files.areas.exists /\ files.areas.kind = "array"
  /\ Len(files.areas.content) > 0
  /\ \A i \in 1..Len(files.areas.content) :
       /\ HasNonEmptyString(files.areas.content[i], "name")
       /\ HasNonEmptyString(files.areas.content[i], "color")
       /\ files.areas.content[i].type.areas = "array"
       /\ files.areas.content[i].type.label = "undefined"

\* C22 as stated: a focus-areas file in the documented YAML format, whose
\* records have name, color and areas and no label, is loaded successfully.
C22_AsStated ==
  (Loaded /\ InDocumentedFormat) =>
    /\ focusAreas = files.areas.content
    /\ LastError # "Error: Failed to parse focus areas file"

\* every focus area of a well-formed file is asked for: --areas and no names
AllAreasRequested ==
  /\ Loaded /\ entityNames = <<>>
  /\ files.areas.kind = "array"
  /\ \A i \in 1..Len(files.areas.content) : HasAllFour(files.areas.content[i])

FileNames == [i \in 1..Len(files.areas.content) |-> files.areas.content[i].name]

Printed == stdout # <<>>

IsBaseLayer(t) == t.kind = "path" /\ t.layer = 0

\* the i-th focus area was processed as the record `area` configures it
ProcessedAs(i, area) ==
  /\ results[i].name = area.name
  /\ results[i].color = area.color
  /\ results[i].url = area.url
  /\ Len(results[i].points) = PresentPoints(area)

\* the i-th layer group and the i-th label printed are those of `area`
PrintedAs(i, area) ==
  /\ SelectSeq(stdout[1], IsGroupOpen)[i].name = area.name
  /\ SelectSeq(stdout[1], IsBaseLayer)[i].name = area.name
  /\ SelectSeq(stdout[1], IsBaseLayer)[i].fill = area.color
  /\ SelectSeq(stdout[1], IsLabel)[i].text = area.name

Count(event) == Cardinality({i \in 1..Len(io) : io[i] = event})

\* reads of the input document: by the parser, and for the composition
DocumentReads == Count("SVGParser(svg)") + Count("readFileSync(svg)")

\* C24 as stated: a single invocation reads the input document at most once,
\* reads the configuration file at most once and writes to standard output
\* at most once, and performs no other I/O.
C24_AsStated ==
  /\ DocumentReads <= 1
  /\ Count("readFileSync(areas)") <= 1
  /\ Count("stdout") <= 1 /\ Len(stdout) <= 1

\* C24, amended: an invocation reads the input document at most twice (once
\* by the parser, once more for the composition), reads the configuration
\* file at most once, and only with --areas, and writes to standard output
\* at most once; besides these it checks once whether each file exists, and
\* writes its messages to the diagnostic stream.
C24_BoundedIO ==
  /\ \A i \in 1..Len(io) :
       io[i] \in {"existsSync(svg)", "existsSync(areas)", "readFileSync(areas)",
                  "SVGParser(svg)", "readFileSync(svg)", "stdout"}
  /\ Count("SVGParser(svg)") <= 1 /\ Count("readFileSync(svg)") <= 1
  /\ Count("readFileSync(areas)") <= 1
  /\ Count("existsSync(svg)") <= 1 /\ Count("existsSync(areas)") <= 1
  /\ ~options.areas => Count("existsSync(areas)") + Count("readFileSync(areas)") = 0
  /\ Count("stdout") <= 1 /\ Len(stdout) = Count("stdout")
  /\ (Exited /\ exitCode = 0) => (DocumentReads = 2 /\ Count("stdout") = 1)

\* an invocation with --areas ran to its end: it read the document twice,
\* the configuration file once and printed once
C24_Witness ==
  /\ Exited /\ exitCode = 0
  /\ io = <<"existsSync(svg)", "existsSync(areas)", "readFileSync(areas)",
            "SVGParser(svg)", "readFileSync(svg)", "stdout">>
  /\ Len(results) = 2

\* the result of the i-th requested group when it is computed from nothing
\* but its own entity names, color, hyperlink and the options
OwnResult(i) ==
  LET area == Configured(RequestedGroups[i])
      entities == IF options.areas THEN area.areas ELSE entityNames
  IN  [name |-> RequestedGroups[i],
       points |-> addPadding(calculateConcaveHull(extractPointsFromEntityGroups(entities)),
                             options.padding),
       color |-> IF options.areas THEN area.color ELSE NoColor,
       url |-> IF options.areas THEN area.url ELSE ""]

\* the layers (path, opacity and color of each) and the label that a text
\* holds for its i-th group
GroupContent(text, i) ==
  [layers |-> SubSeq(SelectSeq(text, IsPath), (i - 1) * LayerCount + 1, i * LayerCount),
   label |-> SelectSeq(text, IsLabel)[i]]

\* what is composed for the i-th requested group when it is the only one
AloneContent(i) ==
  GroupContent(generateSVGOutput(<<OwnResult(i)>>, [type |-> options.curveType],
                                 Document(files.svg.text)).text, 1)

C26_BaseDocumentUnchanged ==
  (Composed /\ WithBase) =>
    LET doc == svgContent.text
        out == output.text
        k == FirstTagEnd(doc)
        inserted == Len(out) - Len(doc)
    IN  /\ k > 0 /\ inserted > 0
        /\ doc[k].name = ">"
        /\ \A i \in 1..k : out[i] = doc[i]
        /\ \A i \in (k + 1)..Len(doc) : out[inserted + i] = doc[i]
        /\ SubSeq(out, 1, k) \o SubSeq(out, k + inserted + 1, Len(out)) = doc
        /\ \A i \in (k + 1)..(k + inserted) : ~IsBase(out[i])
        /\ IsLineBreak(out[k + 1]) /\ IsLineBreak(out[k + inserted])

\* two results were inserted into a document that has text on both sides of
\* its opening tag
C26_Witness ==
  /\ Composed /\ WithBase
  /\ svgContent.text = <<Ch("x"), Ch("<svg"), Ch(">"), Ch("x")>>
  /\ Len(results) = 2
  /\ Len(output.text) > Len(svgContent.text) + 3

RECURSIVE JoinedWithPlus(_)
\* the names with a "+" between each two; for one name, the name
JoinedWithPlus(names) ==
  IF Len(names) = 1 THEN names[1]
  ELSE JoinedWithPlus(SubSeq(names, 1, Len(names) - 1)) \o "+" \o names[Len(names)]

\* every requested group was processed: the loop is over
LoopOver == pc \in {"read", "print"} \/ (Exited /\ output # NotCalled)

DefaultColor == <<"#", "E", "5", "F", "3", "F", "F">>

\* C27: without --areas, any number N >= 1 of entity names gives exactly one
\* result (one hull, one layer group, one label), named by the single name or
\* by the names joined with "+", with no color and no hyperlink; with --areas
\* there is exactly one result per requested focus-area name, and a
\* positional name is taken for a focus-area name, never for the name of an
\* entity group.
C27_OneResultOrOnePerName ==
  /\ (~options.areas /\ LoopOver) =>
       /\ Len(entityNames) >= 1
       /\ Len(results) = 1
       /\ results[1].name = JoinedWithPlus(entityNames)
       /\ results[1].color = NoColor /\ results[1].url = ""
       /\ Len(results[1].points) = PresentPoints([areas |-> entityNames])
       /\ Printed =>
            /\ Len(SelectSeq(stdout[1], IsGroupOpen)) = 1 /\ Len(SelectSeq(stdout[1], IsLabel)) = 1
            /\ Len(SelectSeq(stdout[1], IsLinkOpen)) = 0
            /\ SelectSeq(stdout[1], IsLabel)[1].text = JoinedWithPlus(entityNames)
            /\ SelectSeq(stdout[1], IsBaseLayer)[1].fill = DefaultColor
  /\ (~options.areas /\ ~LoopOver) => results = <<>>
  /\ (options.areas /\ entityNames # <<>>) =>
       /\ Len(results) <= Len(entityNames)
       /\ \A i \in 1..Len(results) :
            /\ IsConfigured(entityNames[i])
            /\ ProcessedAs(i, Configured(entityNames[i]))
       /\ LoopOver => Len(results) = Len(entityNames)
       /\ Printed =>
            /\ Len(SelectSeq(stdout[1], IsGroupOpen)) = Len(entityNames)
            /\ Len(SelectSeq(stdout[1], IsLabel)) = Len(entityNames)
       /\ (Loaded /\ LoopBegan /\ Exited /\ Len(results) < Len(entityNames)
             /\ ~IsConfigured(entityNames[Len(results) + 1])) =>
            (Failed /\ LastError = "Error: Focus area not found")

\* two entity names were printed as the one group Measurer+Evaluator
C27_Witness ==
  /\ ~options.areas /\ Printed
  /\ entityNames = <<"Measurer", "Evaluator">>
  /\ results[1].name = "Measurer+Evaluator"
  /\ Len(results[1].points) = 5

\* with --areas the name of an entity group of the document, given as a
\* positional name, was looked up as a focus area and not found
C27_WitnessAreas ==
  /\ options.areas /\ Exited /\ Failed
  /\ entityNames = <<"Luca", "Measurer">>
  /\ Len(results) = 1 /\ results[1].name = "Luca"
  /\ LastError = "Error: Focus area not found"

\* C30: two invocations that differ only in the verbose flag write the same
\* bytes to standard output and exit with the same status; the verbose
\* messages are on the diagnostic stream only, where an invocation without
\* --verbose writes nothing but its error.
C30_VerboseOnlyOnDiagnostics ==
  /\ (Exited /\ earlier.ran) =>
       /\ options.verbose # earlier.verbose
       /\ stdout = earlier.stdout
       /\ exitCode = earlier.exitCode
  /\ Printed => stdout = <<output.text>>
  /\ ~options.verbose => \A i \in 1..Len(stderr) : stderr[i] \in ErrorLines

\* the same command line printed the same output with and without
\* --verbose; only the verbose invocation wrote messages
C30_Witness ==
  /\ Exited /\ earlier.ran
  /\ Printed /\ exitCode = 0
  /\ options.verbose /\ stderr # <<>>
  /\ earlier.stderr = <<>>
  /\ Len(results) = 2

====
